---- MODULE Spec2Model ----
(***************************************************************************)
(* A model of the core of sophia: the IRI parser and reference resolution  *)
(* of term/iri_rfc3987.rs, and the Vec / HashSet graph and dataset         *)
(* containers of graph/_ext_impl.rs and dataset/_ext_impl.rs.              *)
(*                                                                         *)
(* A text is a sequence of characters; a character is a one-character      *)
(* string, or a token such as "u00E9" standing for one non-ASCII           *)
(* character.  An Option is a sequence of length 0 (None) or 1 (Some).     *)
(***************************************************************************)
EXTENDS Integers, Sequences, FiniteSets, TLC

VARIABLES
    text,       \* the text handed to the validators and to ParsedIri::new
    ipc,        \* where the caller of the IRI functions stands
    valid,      \* the answers of is_valid_iri, is_absolute_iri, is_relative_iri
    pi,         \* the result of ParsedIri::new(text), when Ok
    rendered,   \* the result of to_string()
    base,       \* the ParsedIri join is called on
    ref,        \* the ParsedIri handed to join
    jpc,        \* where the caller of join stands
    joined,     \* the result of base.join(&ref)
    kind,       \* which MutableGraph / MutableDataset implementation is in use
    vec,        \* the Vec, when the container is one
    set,        \* the HashSet, when the container is one
    last,       \* the last call on the container: arguments, result, contents before
    prev,       \* the call before the last one
    view,       \* the last read of the container: the call and what it yielded
    rcf,        \* the RcTermFactory and the Rc<str> allocations it made
    arcf,       \* the ArcTermFactory and the Arc<str> allocations it made
    held,       \* the holders the caller owns, issued side by side by the two
    fcall,      \* the last call on the factories and its get_holder calls
    rds         \* a call of remove_dot_segments: its argument, path and i, one
                \* turn of its loop ago and now

iriVars == <<text, ipc, valid, pi>>
joinVars == <<base, ref, jpc, joined>>
contVars == <<kind, vec, set, last, prev>>
facVars == <<rcf, arcf, held, fcall>>
vars == <<text, ipc, valid, pi, rendered, base, ref, jpc, joined,
          kind, vec, set, last, prev, view, rcf, arcf, held, fcall, rds>>

None == << >>
Some(x) == << x >>
is_some(o) == Len(o) = 1
is_none(o) == Len(o) = 0

(***************************************************************************)
(* Character classes                                                       *)
(***************************************************************************)
LOWER == {"a","b","c","d","e","f","g","h","i","j","k","l","m",
          "n","o","p","q","r","s","t","u","v","w","x","y","z"}
UPPER == {"A","B","C","D","E","F","G","H","I","J","K","L","M",
          "N","O","P","Q","R","S","T","U","V","W","X","Y","Z"}
ALPHA == LOWER \cup UPPER
DIGIT == {"0","1","2","3","4","5","6","7","8","9"}
HEXDIG == DIGIT \cup {"a","b","c","d","e","f","A","B","C","D","E","F"}
\* characters of the ranges \u{A0}-\u{D7FF} ... \u{E1000}-\u{EFFFD}
UCSCHAR == {"u00E9", "u00E0"}
\* characters of the ranges \u{E000}-\u{F8FF}, \u{F0000}-\u{FFFFD}, \u{100000}-\u{10FFFD}
IPRIVATE == {"uE000"}

(***************************************************************************)
(* Regular expressions (the regex crate): a regular expression is a tree,  *)
(* and ReEnds(re, s, P) is the set of positions at which a match of re     *)
(* that starts at a position of P can end.                                 *)
(***************************************************************************)
Cls(S) == [t |-> "cls", set |-> S]
Lit(c) == [t |-> "cls", set |-> {c}]
Cat(items) == [t |-> "cat", items |-> items]
Alt(items) == [t |-> "alt", items |-> items]
Rep(r, lo, hi) == [t |-> "rep", r |-> r, lo |-> lo, hi |-> hi]
Star(r) == [t |-> "rep", r |-> r, lo |-> 0, hi |-> -1]
Plus(r) == [t |-> "rep", r |-> r, lo |-> 1, hi |-> -1]
Opt(r) == [t |-> "rep", r |-> r, lo |-> 0, hi |-> 1]

RECURSIVE ReEnds(_, _, _)
RECURSIVE ReCat(_, _, _, _)
RECURSIVE ReRep(_, _, _, _, _, _)
ReEnds(re, s, P) ==
    IF P = {} THEN {}
    ELSE CASE re.t = "cls" ->
                {i + 1 : i \in {j \in P : j < Len(s) /\ s[j + 1] \in re.set}}
           [] re.t = "cat" -> ReCat(re.items, 1, s, P)
           [] re.t = "alt" ->
                UNION {ReEnds(re.items[k], s, P) : k \in DOMAIN re.items}
           [] re.t = "rep" -> ReRep(re.r, re.lo, re.hi, s, {}, P)
ReCat(items, k, s, P) ==
    IF k > Len(items) THEN P
    ELSE ReCat(items, k + 1, s, ReEnds(items[k], s, P))
\* acc: the ends found so far; F: the ends of the last round
ReRep(r, lo, hi, s, acc, F) ==
    IF lo > 0
    THEN ReRep(r, lo - 1, IF hi < 0 THEN hi ELSE hi - 1, s, {}, ReEnds(r, s, F))
    ELSE LET seen == acc \cup F
             N == IF hi = 0 THEN {} ELSE ReEnds(r, s, F) \ seen
         IN  IF N = {} THEN seen
             ELSE ReRep(r, 0, IF hi < 0 THEN hi ELSE hi - 1, s, seen, N)
\* Regex::is_match of a regex anchored by ^ and $
is_match(re, s) == Len(s) \in ReEnds(re, s, {0})

(***************************************************************************)
(* IRI_REGEX and IRELATIVE_REF_REGEX, part by part in the order of the     *)
(* source text.                                                            *)
(***************************************************************************)
\* [-A-Za-z0-9._~\u{A0}-...\u{EFFFD}!$&'()*+,;=]
RE_IUNRESERVED_SUBDELIMS ==
    {"-"} \cup ALPHA \cup DIGIT \cup {".", "_", "~"} \cup UCSCHAR
    \cup {"!", "$", "&", "'", "(", ")", "*", "+", ",", ";", "="}
\* %[0-9a-fA-F]{2}
RE_PCT == Cat(<<Lit("%"), Rep(Cls(HEXDIG), 2, 2)>>)
\* [0-9a-fA-F]{1,4}
RE_H16 == Rep(Cls(HEXDIG), 1, 4)
\* ([0-9]|([1-9][0-9])|(1[0-9]{2})|(2[0-4][0-9])|(25[0-5]))
RE_DEC_OCTET ==
    Alt(<<Cls(DIGIT),
          Cat(<<Cls(DIGIT \ {"0"}), Cls(DIGIT)>>),
          Cat(<<Lit("1"), Rep(Cls(DIGIT), 2, 2)>>),
          Cat(<<Lit("2"), Cls({"0","1","2","3","4"}), Cls(DIGIT)>>),
          Cat(<<Lit("2"), Lit("5"), Cls({"0","1","2","3","4","5"})>>)>>)
\* dec_octet (\. dec_octet){3}
RE_IPV4 == Cat(<<RE_DEC_OCTET, Rep(Cat(<<Lit("."), RE_DEC_OCTET>>), 3, 3)>>)
\* ([0-9a-fA-F]{1,4}:[0-9a-fA-F]{1,4} | ipv4)
RE_LS32 == Alt(<<Cat(<<RE_H16, Lit(":"), RE_H16>>), RE_IPV4>>)
\* ([0-9a-fA-F]{1,4}:){n}
RE_H16C(n) == Rep(Cat(<<RE_H16, Lit(":")>>), n, n)
\* (([0-9a-fA-F]{1,4}:){0,n}:[0-9a-fA-F]{1,4})?
RE_V6_BEFORE(n) ==
    Opt(Cat(<<Rep(Cat(<<RE_H16, Lit(":")>>), 0, n), Lit(":"), RE_H16>>))
RE_V6_GAP == Cat(<<Lit(":"), Lit(":")>>)
RE_IPV6 ==
    Alt(<<Cat(<<RE_H16C(6), RE_LS32>>),
          Cat(<<RE_V6_GAP, RE_H16C(5), RE_LS32>>),
          Cat(<<Opt(RE_H16), RE_V6_GAP, RE_H16C(4), RE_LS32>>),
          Cat(<<RE_V6_BEFORE(1), RE_V6_GAP, RE_H16C(3), RE_LS32>>),
          Cat(<<RE_V6_BEFORE(2), RE_V6_GAP, RE_H16C(2), RE_LS32>>),
          Cat(<<RE_V6_BEFORE(3), RE_V6_GAP, RE_H16, Lit(":"), RE_LS32>>),
          Cat(<<RE_V6_BEFORE(4), RE_V6_GAP, RE_LS32>>),
          Cat(<<RE_V6_BEFORE(5), RE_V6_GAP, RE_H16>>),
          Cat(<<RE_V6_BEFORE(6), RE_V6_GAP>>)>>)
\* v[0-9a-fA-F]+ \. [-A-Za-z0-9._~!$&'()*+,;=:]+
RE_IPVFUTURE ==
    Cat(<<Lit("v"), Plus(Cls(HEXDIG)), Lit("."),
          Plus(Cls({"-"} \cup ALPHA \cup DIGIT \cup {".", "_", "~", "!", "$",
                   "&", "'", "(", ")", "*", "+", ",", ";", "=", ":"}))>>)
RE_IP_LITERAL == Cat(<<Lit("["), Alt(<<RE_IPV6, RE_IPVFUTURE>>), Lit("]")>>)
\* ( ( [iunreserved sub_delims :] | pct )* @ )?
RE_IUSERINFO ==
    Opt(Cat(<<Star(Alt(<<Cls(RE_IUNRESERVED_SUBDELIMS \cup {":"}), RE_PCT>>)),
              Lit("@")>>))
RE_IREG_NAME == Star(Alt(<<Cls(RE_IUNRESERVED_SUBDELIMS), RE_PCT>>))
RE_IHOST == Alt(<<RE_IP_LITERAL, RE_IPV4, RE_IREG_NAME>>)
\* ( : [0-9]* )?
RE_PORT == Opt(Cat(<<Lit(":"), Star(Cls(DIGIT))>>))
\* ( [iunreserved sub_delims :@] | pct )
RE_IPCHAR == Alt(<<Cls(RE_IUNRESERVED_SUBDELIMS \cup {":", "@"}), RE_PCT>>)
\* ( [iunreserved sub_delims @] | pct )
RE_IPCHAR_NC == Alt(<<Cls(RE_IUNRESERVED_SUBDELIMS \cup {"@"}), RE_PCT>>)
\* ( / ipchar* )*
RE_SLASH_SEGMENTS == Star(Cat(<<Lit("/"), Star(RE_IPCHAR)>>))
\* // iuserinfo? ihost port? ipath_abempty
RE_AUTHORITY_PATH ==
    Cat(<<Lit("/"), Lit("/"), RE_IUSERINFO, RE_IHOST, RE_PORT,
          RE_SLASH_SEGMENTS>>)
\* / ( ipchar* ( / ipchar* )* )?
RE_IPATH_ABSOLUTE ==
    Cat(<<Lit("/"), Opt(Cat(<<Star(RE_IPCHAR), RE_SLASH_SEGMENTS>>))>>)
RE_IPATH_ROOTLESS == Cat(<<Plus(RE_IPCHAR), RE_SLASH_SEGMENTS>>)
RE_IPATH_NOSCHEME == Cat(<<Plus(RE_IPCHAR_NC), RE_SLASH_SEGMENTS>>)
\* ( \? [ipchar iprivate /?]* )?
RE_IQUERY ==
    Opt(Cat(<<Lit("?"),
              Star(Cls(RE_IUNRESERVED_SUBDELIMS \cup {":", "@", "'"}
                       \cup IPRIVATE \cup {"/", "?"}))>>))
\* ( \# [ipchar /?]* )?
RE_IFRAGMENT ==
    Opt(Cat(<<Lit("#"),
              Star(Cls(RE_IUNRESERVED_SUBDELIMS \cup {":", "@", "/", "?"}))>>))
\* [A-Za-z] [-A-Za-z0-9+.]* :
RE_SCHEME ==
    Cat(<<Cls(ALPHA), Star(Cls({"-"} \cup ALPHA \cup DIGIT \cup {"+", "."})),
          Lit(":")>>)

IRI_REGEX ==
    Cat(<<RE_SCHEME,
          Opt(Alt(<<RE_AUTHORITY_PATH, RE_IPATH_ABSOLUTE, RE_IPATH_ROOTLESS>>)),
          RE_IQUERY, RE_IFRAGMENT>>)
IRELATIVE_REF_REGEX ==
    Cat(<<Opt(Alt(<<RE_AUTHORITY_PATH, RE_IPATH_ABSOLUTE, RE_IPATH_NOSCHEME>>)),
          RE_IQUERY, RE_IFRAGMENT>>)

is_valid_iri(txt) == is_match(IRI_REGEX, txt) \/ is_match(IRELATIVE_REF_REGEX, txt)
is_absolute_iri(txt) == is_match(IRI_REGEX, txt)
is_relative_iri(txt) == is_match(IRELATIVE_REF_REGEX, txt)

(***************************************************************************)
(* The grammar term/iri_rfc3987.pest of IriParser: the productions of      *)
(* RFC 3987 section 2.2, and the tree of pairs a parse of Rule::main       *)
(* yields.  A pair has a rule, the text it spans and its inner pairs.      *)
(***************************************************************************)
G_unreserved == ALPHA \cup DIGIT \cup {"-", ".", "_", "~"}
G_iunreserved == G_unreserved \cup UCSCHAR
G_sub_delims == {"!", "$", "&", "'", "(", ")", "*", "+", ",", ";", "="}
G_pct_encoded == Cat(<<Lit("%"), Cls(HEXDIG), Cls(HEXDIG)>>)
G_ipchar == Alt(<<Cls(G_iunreserved \cup G_sub_delims \cup {":", "@"}), G_pct_encoded>>)
G_isegment == Star(G_ipchar)
G_isegment_nz == Plus(G_ipchar)
G_isegment_nz_nc ==
    Plus(Alt(<<Cls(G_iunreserved \cup G_sub_delims \cup {"@"}), G_pct_encoded>>))
G_iquery == Star(Alt(<<G_ipchar, Cls(IPRIVATE \cup {"/", "?"})>>))
G_ifragment == Star(Alt(<<G_ipchar, Cls({"/", "?"})>>))
G_scheme == Cat(<<Cls(ALPHA), Star(Cls(ALPHA \cup DIGIT \cup {"+", "-", "."}))>>)
G_dec_octet ==
    Alt(<<Cls(DIGIT),
          Cat(<<Cls(DIGIT \ {"0"}), Cls(DIGIT)>>),
          Cat(<<Lit("1"), Cls(DIGIT), Cls(DIGIT)>>),
          Cat(<<Lit("2"), Cls({"0","1","2","3","4"}), Cls(DIGIT)>>),
          Cat(<<Lit("2"), Lit("5"), Cls({"0","1","2","3","4","5"})>>)>>)
G_ipv4address ==
    Cat(<<G_dec_octet, Lit("."), G_dec_octet, Lit("."), G_dec_octet, Lit("."),
          G_dec_octet>>)
G_h16 == Rep(Cls(HEXDIG), 1, 4)
G_ls32 == Alt(<<Cat(<<G_h16, Lit(":"), G_h16>>), G_ipv4address>>)
\* n( h16 ":" )
G_h16_colon(n) == Rep(Cat(<<G_h16, Lit(":")>>), n, n)
\* [ *n( h16 ":" ) h16 ]
G_upto_h16(n) == Opt(Cat(<<Rep(Cat(<<G_h16, Lit(":")>>), 0, n), G_h16>>))
G_dcolon == Cat(<<Lit(":"), Lit(":")>>)
G_ipv6address ==
    Alt(<<Cat(<<G_h16_colon(6), G_ls32>>),
          Cat(<<G_dcolon, G_h16_colon(5), G_ls32>>),
          Cat(<<G_upto_h16(0), G_dcolon, G_h16_colon(4), G_ls32>>),
          Cat(<<G_upto_h16(1), G_dcolon, G_h16_colon(3), G_ls32>>),
          Cat(<<G_upto_h16(2), G_dcolon, G_h16_colon(2), G_ls32>>),
          Cat(<<G_upto_h16(3), G_dcolon, G_h16_colon(1), G_ls32>>),
          Cat(<<G_upto_h16(4), G_dcolon, G_ls32>>),
          Cat(<<G_upto_h16(5), G_dcolon, G_h16>>),
          Cat(<<G_upto_h16(6), G_dcolon>>)>>)
G_ipvfuture ==
    Cat(<<Lit("v"), Plus(Cls(HEXDIG)), Lit("."),
          Plus(Cls(G_unreserved \cup G_sub_delims \cup {":"}))>>)
G_ip_literal == Cat(<<Lit("["), Alt(<<G_ipv6address, G_ipvfuture>>), Lit("]")>>)
G_ireg_name == Star(Alt(<<Cls(G_iunreserved \cup G_sub_delims), G_pct_encoded>>))
G_ihost == Alt(<<G_ip_literal, G_ipv4address, G_ireg_name>>)
G_iuserinfo ==
    Star(Alt(<<Cls(G_iunreserved \cup G_sub_delims \cup {":"}), G_pct_encoded>>))
G_port == Star(Cls(DIGIT))
G_iauthority ==
    Cat(<<Opt(Cat(<<G_iuserinfo, Lit("@")>>)), G_ihost, Opt(Cat(<<Lit(":"), G_port>>))>>)

Pair(rule, str, inner) == [rule |-> rule, str |-> str, inner |-> inner]
NoPair == [rule |-> "none", str |-> << >>, inner |-> << >>]

\* the first index of character c in s, 0 when there is none
RECURSIVE IndexFrom(_, _, _)
IndexFrom(s, c, i) ==
    IF i > Len(s) THEN 0 ELSE IF s[i] = c THEN i ELSE IndexFrom(s, c, i + 1)
IndexOf(s, c) == IndexFrom(s, c, 1)
\* the texts between the "/" of s
RECURSIVE SplitSlash(_)
SplitSlash(s) ==
    LET i == IndexOf(s, "/")
    IN  IF i = 0 THEN << s >>
        ELSE << SubSeq(s, 1, i - 1) >> \o SplitSlash(SubSeq(s, i + 1, Len(s)))
StartsWith(s, pre) == Len(s) >= Len(pre) /\ SubSeq(s, 1, Len(pre)) = pre

\* the pairs of segments, the first of rule `first`, the others isegment
G_segment_pairs(first, g_first, segs) ==
    IF /\ is_match(g_first, segs[1])
       /\ \A k \in 2..Len(segs) : is_match(G_isegment, segs[k])
    THEN [ok |-> TRUE,
          pairs |-> [k \in DOMAIN segs |->
                        Pair(IF k = 1 THEN first ELSE "isegment", segs[k], << >>)]]
    ELSE [ok |-> FALSE, pairs |-> << >>]
\* *( "/" isegment ), on the text after the first "/"
G_segments(rest) == G_segment_pairs("isegment", G_isegment, SplitSlash(rest))
G_path_pair(rule, str, segs) ==
    IF segs.ok THEN Pair(rule, str, segs.pairs) ELSE NoPair
\* ipath-rootless = isegment-nz *( "/" isegment ), ipath-noscheme likewise
G_ipath_rootless(h) ==
    G_path_pair("ipath_rootless", h,
                G_segment_pairs("isegment_nz", G_isegment_nz, SplitSlash(h)))
G_ipath_noscheme(h) ==
    G_path_pair("ipath_noscheme", h,
                G_segment_pairs("isegment_nz_nc", G_isegment_nz_nc, SplitSlash(h)))
\* ipath-absolute = "/" [ isegment-nz *( "/" isegment ) ]
G_ipath_absolute(h) ==
    IF Len(h) = 1 THEN Pair("ipath_absolute", h, << >>)
    ELSE G_path_pair("ipath_absolute", h,
                     G_segment_pairs("isegment_nz", G_isegment_nz,
                                     SplitSlash(SubSeq(h, 2, Len(h)))))
\* ipath-abempty = *( "/" isegment )
G_ipath_abempty(path) ==
    IF Len(path) = 0 THEN Pair("ipath_abempty", path, << >>)
    ELSE G_path_pair("ipath_abempty", path, G_segments(SubSeq(path, 2, Len(path))))
\* iauthority ipath-abempty, on the text after "//": i is the first "/" of it
G_authority_at(after, i) ==
    IF is_match(G_iauthority, IF i = 0 THEN after ELSE SubSeq(after, 1, i - 1))
    THEN << Pair("iauthority", IF i = 0 THEN after ELSE SubSeq(after, 1, i - 1), << >>),
            G_ipath_abempty(IF i = 0 THEN << >> ELSE SubSeq(after, i, Len(after))) >>
    ELSE << NoPair, NoPair >>
G_authority(after) == G_authority_at(after, IndexOf(after, "/"))
\* the pairs of an ihier-part or irelative-part, NoPair among them when h is none
G_part_inner(h, relative) ==
    IF StartsWith(h, <<"/", "/">>) THEN G_authority(SubSeq(h, 3, Len(h)))
    ELSE IF StartsWith(h, <<"/">>) THEN << G_ipath_absolute(h) >>
    ELSE IF Len(h) > 0
    THEN << IF relative THEN G_ipath_noscheme(h) ELSE G_ipath_rootless(h) >>
    ELSE << Pair("ipath_empty", << >>, << >>) >>
G_all_pairs(rule, str, inner) ==
    IF \E k \in DOMAIN inner : inner[k].rule = "none" THEN NoPair
    ELSE Pair(rule, str, inner)
\* ihier-part = "//" iauthority ipath-abempty / ipath-absolute / ipath-rootless / ipath-empty
G_ihier_part(h) == G_all_pairs("ihier_part", h, G_part_inner(h, FALSE))
\* irelative-part = "//" iauthority ipath-abempty / ipath-absolute / ipath-noscheme / ipath-empty
G_irelative_part(h) == G_all_pairs("irelative_part", h, G_part_inner(h, TRUE))
\* the text split at its first "#" and, before it, its first "?"
G_split_at(t, h, nofrag, q) ==
    [part |-> IF q = 0 THEN nofrag ELSE SubSeq(nofrag, 1, q - 1),
     query |-> IF q = 0 THEN None ELSE Some(SubSeq(nofrag, q + 1, Len(nofrag))),
     fragment |-> IF h = 0 THEN None ELSE Some(SubSeq(t, h + 1, Len(t)))]
G_before(t, h) == IF h = 0 THEN t ELSE SubSeq(t, 1, h - 1)
G_split(t) ==
    G_split_at(t, IndexOf(t, "#"), G_before(t, IndexOf(t, "#")),
               IndexOf(G_before(t, IndexOf(t, "#")), "?"))
\* [ "?" iquery ] [ "#" ifragment ]
G_tail(sp) ==
    (IF is_none(sp.query) THEN << >>
     ELSE IF is_match(G_iquery, sp.query[1])
     THEN << Pair("iquery", sp.query[1], << >>) >> ELSE << NoPair >>)
    \o (IF is_none(sp.fragment) THEN << >>
        ELSE IF is_match(G_ifragment, sp.fragment[1])
        THEN << Pair("ifragment", sp.fragment[1], << >>) >> ELSE << NoPair >>)
\* IRI = scheme ":" ihier-part [ "?" iquery ] [ "#" ifragment ]; c is the first ":"
G_iri_at(t, sp, c) ==
    IF c = 0 THEN NoPair
    ELSE G_all_pairs("iri", t,
            << IF is_match(G_scheme, SubSeq(sp.part, 1, c - 1))
               THEN Pair("scheme", SubSeq(sp.part, 1, c - 1), << >>) ELSE NoPair,
               G_ihier_part(SubSeq(sp.part, c + 1, Len(sp.part))) >> \o G_tail(sp))
G_iri_split(t, sp) == G_iri_at(t, sp, IndexOf(sp.part, ":"))
G_iri(t) == G_iri_split(t, G_split(t))
\* irelative-ref = irelative-part [ "?" iquery ] [ "#" ifragment ]
G_irelative_ref_split(t, sp) ==
    G_all_pairs("irelative_ref", t, << G_irelative_part(sp.part) >> \o G_tail(sp))
G_irelative_ref(t) == G_irelative_ref_split(t, G_split(t))
\* main = { SOI ~ (iri | irelative_ref) ~ EOI } : Ok(pairs) or Err
G_main(t, a) ==
    G_all_pairs("main", t,
                << IF a.rule # "none" THEN a ELSE G_irelative_ref(t),
                   Pair("EOI", << >>, << >>) >>)
IriParser_parse(txt) == G_main(txt, G_iri(txt))

(***************************************************************************)
(* ParsedIri                                                               *)
(***************************************************************************)
ParsedIri(scheme, authority, path, query, fragment) ==
    [scheme |-> scheme, authority |-> authority, path |-> path,
     query |-> query, fragment |-> fragment]
ParsedIri_default == ParsedIri(None, None, << >>, None, None)

RECURSIVE fill_with(_, _)
RECURSIVE fill_pairs(_, _, _)
\* A faulty fill_with: the path only gets the texts that are not empty.
fill_subpair_nonempty(self, subpair) ==
    CASE subpair.rule \in {"iri", "irelative_ref", "ihier_part", "irelative_part",
                           "ipath_abempty", "ipath_absolute", "ipath_noscheme",
                           "ipath_rootless"} -> fill_with(self, subpair)
      [] subpair.rule = "scheme" -> [self EXCEPT !.scheme = Some(subpair.str)]
      [] subpair.rule = "iquery" -> [self EXCEPT !.query = Some(subpair.str)]
      [] subpair.rule = "ifragment" -> [self EXCEPT !.fragment = Some(subpair.str)]
      [] subpair.rule = "iauthority" -> [self EXCEPT !.authority = Some(subpair.str)]
      [] subpair.rule \in {"isegment", "isegment_nz", "isegment_nz_nc"} ->
            IF subpair.str = << >> THEN self
            ELSE [self EXCEPT !.path = Append(@, subpair.str)]
      [] subpair.rule \in {"ipath_empty", "EOI"} -> self
fill_subpair(self, subpair) ==
    CASE subpair.rule \in {"iri", "irelative_ref"} -> fill_with(self, subpair)
      [] subpair.rule = "scheme" -> [self EXCEPT !.scheme = Some(subpair.str)]
      [] subpair.rule \in {"ihier_part", "irelative_part"} -> fill_with(self, subpair)
      [] subpair.rule = "iquery" -> [self EXCEPT !.query = Some(subpair.str)]
      [] subpair.rule = "ifragment" -> [self EXCEPT !.fragment = Some(subpair.str)]
      [] subpair.rule = "iauthority" -> [self EXCEPT !.authority = Some(subpair.str)]
      [] subpair.rule = "ipath_abempty" ->
            IF Len(subpair.str) > 0
            THEN fill_with([self EXCEPT !.path = Append(@, << >>)], subpair)
            ELSE self
      [] subpair.rule = "ipath_absolute" ->
            fill_with([self EXCEPT !.path = Append(@, << >>)], subpair)
      [] subpair.rule \in {"ipath_noscheme", "ipath_rootless"} -> fill_with(self, subpair)
      [] subpair.rule = "ipath_empty" -> self
      [] subpair.rule \in {"isegment", "isegment_nz", "isegment_nz_nc"} ->
            [self EXCEPT !.path = Append(@, subpair.str)]
      [] subpair.rule = "EOI" -> self
\* for subpair in pair.into_inner()
fill_pairs(self, inner, k) ==
    IF k > Len(inner) THEN self
    ELSE fill_pairs(fill_subpair(self, inner[k]), inner, k + 1)
fill_with(self, pair) == fill_pairs(self, pair.inner, 1)

\* ParsedIri::new: Ok(pi) or Err
ParsedIri_of(pair) ==
    IF pair.rule = "none" THEN [ok |-> FALSE, pi |-> ParsedIri_default]
    ELSE [ok |-> TRUE, pi |-> fill_with(ParsedIri_default, pair)]
ParsedIri_new(txt) == ParsedIri_of(IriParser_parse(txt))

is_absolute(self) == is_some(self.scheme)

\* [&str]::join
RECURSIVE slice_join(_, _)
slice_join(path, sep) ==
    IF Len(path) = 0 THEN << >>
    ELSE IF Len(path) = 1 THEN path[1]
    ELSE path[1] \o sep \o slice_join(Tail(path), sep)

to_string(self) ==
    LET ret1 == IF is_some(self.scheme) THEN self.scheme[1] \o <<":">> ELSE << >>
        ret2 == IF is_some(self.authority)
                THEN ret1 \o <<"/", "/">> \o self.authority[1] ELSE ret1
        ret3 == ret2 \o slice_join(self.path, <<"/">>)
        ret4 == IF is_some(self.query) THEN ret3 \o <<"?">> \o self.query[1] ELSE ret3
    IN  IF is_some(self.fragment) THEN ret4 \o <<"#">> \o self.fragment[1] ELSE ret4

\* Vec::remove, with a 0-based index
vec_remove(v, i) == SubSeq(v, 1, i) \o SubSeq(v, i + 2, Len(v))

DOT == <<".">>
DOTDOT == <<".", ".">>

\* A faulty loop body: ".." at index 1 pops the root segment "" as well
\* (the guard i != 0 && (i != 1 || path[0] != "") reduced to i != 0).
rds_iteration_pops_root(path, i) ==
    IF path[i + 1] = DOT THEN [path |-> vec_remove(path, i), i |-> i]
    ELSE IF path[i + 1] = DOTDOT
         THEN IF i # 0
              THEN [path |-> vec_remove(vec_remove(path, i - 1), i - 1), i |-> i - 1]
              ELSE [path |-> vec_remove(path, i), i |-> i]
         ELSE [path |-> path, i |-> i + 1]
\* A faulty loop body: a "." is left where it is and i stays.
rds_iteration_keeps_dot(path, i) ==
    IF path[i + 1] = DOT THEN [path |-> path, i |-> i]
    ELSE IF path[i + 1] = DOTDOT
         THEN IF i # 0 /\ (i # 1 \/ path[1] # << >>)
              THEN [path |-> vec_remove(vec_remove(path, i - 1), i - 1), i |-> i - 1]
              ELSE [path |-> vec_remove(path, i), i |-> i]
         ELSE [path |-> path, i |-> i + 1]
\* one turn of the while loop of remove_dot_segments, i 0-based
rds_iteration(path, i) ==
    IF path[i + 1] = DOT
    THEN [path |-> vec_remove(path, i), i |-> i]
    ELSE IF path[i + 1] = DOTDOT
    THEN IF i # 0 /\ (i # 1 \/ path[1] # << >>)
         THEN [path |-> vec_remove(vec_remove(path, i - 1), i - 1), i |-> i - 1]
         ELSE [path |-> vec_remove(path, i), i |-> i]
    ELSE [path |-> path, i |-> i + 1]
\* A faulty start: no "" is pushed after a final "." or "..".
rds_push_nothing(path) == path
\* let last = path[path.len()-1]; if last == "." || last == ".." { path.push("") }
rds_push(path) ==
    IF path[Len(path)] = DOT \/ path[Len(path)] = DOTDOT THEN Append(path, << >>)
    ELSE path
RECURSIVE rds_while(_)
rds_while(st) ==
    IF st.i < Len(st.path) THEN rds_while(rds_iteration(st.path, st.i))
    ELSE st.path
\* A faulty remove_dot_segments: the "." go, the ".." stay.
remove_single_dots(path) == SelectSeq(path, LAMBDA seg : seg # DOT)
remove_dot_segments(path) ==
    IF Len(path) = 0 THEN path
    ELSE IF path[Len(path)] = DOT \/ path[Len(path)] = DOTDOT
    THEN rds_while([path |-> Append(path, << >>), i |-> 0])
    ELSE rds_while([path |-> path, i |-> 0])

\* base.path.len()-1 of merge, a usize: with an empty base path the subtraction
\* overflows, which panics where overflow checks are compiled in and wraps to
\* usize::MAX where they are not
merge_overflows(b) == Len(b.path) = 0
\* base.path.iter().take(base.path.len()-1); take(usize::MAX) takes every element
merge_taken(b) ==
    IF Len(b.path) = 0 THEN b.path ELSE SubSeq(b.path, 1, Len(b.path) - 1)
merge(b, path) ==
    (IF is_some(b.authority) /\ Len(b.path) = 0 THEN << << >> >> ELSE << >>)
    \o merge_taken(b) \o path

\* whether this call of join reaches the subtraction of merge with an empty base path
join_overflows(self, iri_ref) ==
    /\ is_none(iri_ref.scheme)
    /\ is_none(iri_ref.authority)
    /\ Len(iri_ref.path) # 0
    /\ iri_ref.path[1] # << >>
    /\ merge_overflows(self)
join(self, iri_ref) ==
    IF is_some(iri_ref.scheme)
    THEN ParsedIri(iri_ref.scheme, iri_ref.authority,
                   remove_dot_segments(iri_ref.path), iri_ref.query, iri_ref.fragment)
    ELSE IF is_some(iri_ref.authority)
    THEN ParsedIri(self.scheme, iri_ref.authority,
                   remove_dot_segments(iri_ref.path), iri_ref.query, iri_ref.fragment)
    ELSE IF Len(iri_ref.path) = 0
    THEN ParsedIri(self.scheme, self.authority, self.path,
                   IF is_some(iri_ref.query) THEN iri_ref.query ELSE self.query,
                   iri_ref.fragment)
    ELSE IF iri_ref.path[1] = << >>
    THEN ParsedIri(self.scheme, self.authority,
                   remove_dot_segments(iri_ref.path), iri_ref.query, iri_ref.fragment)
    ELSE ParsedIri(self.scheme, self.authority,
                   remove_dot_segments(merge(self, iri_ref.path)),
                   iri_ref.query, iri_ref.fragment)


(***************************************************************************)
(* The tables of mod test                                                  *)
(***************************************************************************)
POSITIVE_IRIS ==
    << << <<"h", "t", "t", "p", ":">>,
          << TRUE, Some(<<"h", "t", "t", "p">>), None,
             <<  >>, None, None >> >>,
       << <<"h", "t", "t", "p", ":", "/", "/", "e", "x", "a", "m", "p", "l", "e", ".", "o", "r", "g">>,
          << TRUE, Some(<<"h", "t", "t", "p">>), Some(<<"e", "x", "a", "m", "p", "l", "e", ".", "o", "r", "g">>),
             <<  >>, None, None >> >>,
       << <<"h", "t", "t", "p", ":", "/", "/", "1", "2", "7", ".", "0", ".", "0", ".", "1">>,
          << TRUE, Some(<<"h", "t", "t", "p">>), Some(<<"1", "2", "7", ".", "0", ".", "0", ".", "1">>),
             <<  >>, None, None >> >>,
       << <<"h", "t", "t", "p", ":", "/", "/", "[", ":", ":", "]">>,
          << TRUE, Some(<<"h", "t", "t", "p">>), Some(<<"[", ":", ":", "]">>),
             <<  >>, None, None >> >>,
       << <<"h", "t", "t", "p", ":", "/", "/", "%", "0", "D">>,
          << TRUE, Some(<<"h", "t", "t", "p">>), Some(<<"%", "0", "D">>),
             <<  >>, None, None >> >>,
       << <<"h", "t", "t", "p", ":", "/", "/", "e", "x", "a", "m", "p", "l", "e", ".", "o", "r", "g", "/">>,
          << TRUE, Some(<<"h", "t", "t", "p">>), Some(<<"e", "x", "a", "m", "p", "l", "e", ".", "o", "r", "g">>),
             << <<>>, <<>> >>, None, None >> >>,
       << <<"h", "t", "t", "p", ":", "/", "/", "u00E9", "x", "a", "m", "p", "l", "e", ".", "o", "r", "g", "/">>,
          << TRUE, Some(<<"h", "t", "t", "p">>), Some(<<"u00E9", "x", "a", "m", "p", "l", "e", ".", "o", "r", "g">>),
             << <<>>, <<>> >>, None, None >> >>,
       << <<"h", "t", "t", "p", ":", "/", "/", "u", "s", "e", "r", ":", "p", "w", "@", "e", "x", "a", "m", "p", "l", "e", ".", "o", "r", "g", ":", "1", "2", "3", "4", "/">>,
          << TRUE, Some(<<"h", "t", "t", "p">>), Some(<<"u", "s", "e", "r", ":", "p", "w", "@", "e", "x", "a", "m", "p", "l", "e", ".", "o", "r", "g", ":", "1", "2", "3", "4">>),
             << <<>>, <<>> >>, None, None >> >>,
       << <<"h", "t", "t", "p", ":", "/", "/", "e", "x", "a", "m", "p", "l", "e", ".", "o", "r", "g", "/", "f", "o", "o", "/", "b", "a", "r", "/", "b", "a", "z">>,
          << TRUE, Some(<<"h", "t", "t", "p">>), Some(<<"e", "x", "a", "m", "p", "l", "e", ".", "o", "r", "g">>),
             << <<>>, <<"f", "o", "o">>, <<"b", "a", "r">>, <<"b", "a", "z">> >>, None, None >> >>,
       << <<"h", "t", "t", "p", ":", "/", "/", "e", "x", "a", "m", "p", "l", "e", ".", "o", "r", "g", "/", "f", "o", "o", "/", "b", "a", "r", "/">>,
          << TRUE, Some(<<"h", "t", "t", "p">>), Some(<<"e", "x", "a", "m", "p", "l", "e", ".", "o", "r", "g">>),
             << <<>>, <<"f", "o", "o">>, <<"b", "a", "r">>, <<>> >>, None, None >> >>,
       << <<"h", "t", "t", "p", ":", "/", "/", "e", "x", "a", "m", "p", "l", "e", ".", "o", "r", "g", "/", "f", "o", "o", "/", "b", "a", "r", "/", "b", "u00E0", "z">>,
          << TRUE, Some(<<"h", "t", "t", "p">>), Some(<<"e", "x", "a", "m", "p", "l", "e", ".", "o", "r", "g">>),
             << <<>>, <<"f", "o", "o">>, <<"b", "a", "r">>, <<"b", "u00E0", "z">> >>, None, None >> >>,
       << <<"h", "t", "t", "p", ":", "/", "/", "e", "x", "a", "m", "p", "l", "e", ".", "o", "r", "g", "/", "f", "o", "o", "/", ".", ".", "/", ".", "/", "/", "b", "a", "r">>,
          << TRUE, Some(<<"h", "t", "t", "p">>), Some(<<"e", "x", "a", "m", "p", "l", "e", ".", "o", "r", "g">>),
             << <<>>, <<"f", "o", "o">>, <<".", ".">>, <<".">>, <<>>, <<"b", "a", "r">> >>, None, None >> >>,
       << <<"h", "t", "t", "p", ":", "/", "/", "e", "x", "a", "m", "p", "l", "e", ".", "o", "r", "g", "/", "!", "$", "&", "'", "(", ")", "*", "+", ",", "=", ":", "@", "/", "f", "o", "o", "%", "0", "D">>,
          << TRUE, Some(<<"h", "t", "t", "p">>), Some(<<"e", "x", "a", "m", "p", "l", "e", ".", "o", "r", "g">>),
             << <<>>, <<"!", "$", "&", "'", "(", ")", "*", "+", ",", "=", ":", "@">>, <<"f", "o", "o", "%", "0", "D">> >>, None, None >> >>,
       << <<"h", "t", "t", "p", ":", "/", "/", "e", "x", "a", "m", "p", "l", "e", ".", "o", "r", "g", "/", "?", "a", "b", "c">>,
          << TRUE, Some(<<"h", "t", "t", "p">>), Some(<<"e", "x", "a", "m", "p", "l", "e", ".", "o", "r", "g">>),
             << <<>>, <<>> >>, Some(<<"a", "b", "c">>), None >> >>,
       << <<"h", "t", "t", "p", ":", "/", "/", "e", "x", "a", "m", "p", "l", "e", ".", "o", "r", "g", "/", "?", "!", "$", "&", "'", "(", ")", "*", "+", ",", "=", ":", "@", "/", "?", "uE000">>,
          << TRUE, Some(<<"h", "t", "t", "p">>), Some(<<"e", "x", "a", "m", "p", "l", "e", ".", "o", "r", "g">>),
             << <<>>, <<>> >>, Some(<<"!", "$", "&", "'", "(", ")", "*", "+", ",", "=", ":", "@", "/", "?", "uE000">>), None >> >>,
       << <<"h", "t", "t", "p", ":", "/", "/", "e", "x", "a", "m", "p", "l", "e", ".", "o", "r", "g", "/", "#", "d", "e", "f">>,
          << TRUE, Some(<<"h", "t", "t", "p">>), Some(<<"e", "x", "a", "m", "p", "l", "e", ".", "o", "r", "g">>),
             << <<>>, <<>> >>, None, Some(<<"d", "e", "f">>) >> >>,
       << <<"h", "t", "t", "p", ":", "/", "/", "e", "x", "a", "m", "p", "l", "e", ".", "o", "r", "g", "/", "?", "a", "b", "c", "#", "d", "e", "f">>,
          << TRUE, Some(<<"h", "t", "t", "p">>), Some(<<"e", "x", "a", "m", "p", "l", "e", ".", "o", "r", "g">>),
             << <<>>, <<>> >>, Some(<<"a", "b", "c">>), Some(<<"d", "e", "f">>) >> >>,
       << <<"t", "a", "g", ":", "a", "b", "c", "/", "d", "e", "f">>,
          << TRUE, Some(<<"t", "a", "g">>), None,
             << <<"a", "b", "c">>, <<"d", "e", "f">> >>, None, None >> >>,
       << <<"t", "a", "g", ":">>,
          << TRUE, Some(<<"t", "a", "g">>), None,
             <<  >>, None, None >> >>,
       << <<"f", "o", "o">>,
          << FALSE, None, None,
             << <<"f", "o", "o">> >>, None, None >> >>,
       << <<".", ".">>,
          << FALSE, None, None,
             << <<".", ".">> >>, None, None >> >>,
       << <<"/", "/", "e", "x", "a", "m", "p", "l", "e", ".", "o", "r", "g">>,
          << FALSE, None, Some(<<"e", "x", "a", "m", "p", "l", "e", ".", "o", "r", "g">>),
             <<  >>, None, None >> >>,
       << <<"?">>,
          << FALSE, None, None,
             <<  >>, Some(<<>>), None >> >>,
       << <<"#">>,
          << FALSE, None, None,
             <<  >>, None, Some(<<>>) >> >>,
       << <<"?", "#">>,
          << FALSE, None, None,
             <<  >>, Some(<<>>), Some(<<>>) >> >> >>
NEGATIVE_IRIS ==
    << <<"h", "t", "t", "p", ":", "/", "/", "[", "/">>,
       <<"h", "t", "t", "p", ":", "/", "/", "a", "/", "[">>,
       <<"h", "t", "t", "p", ":", "/", "/", "a", "/", "]">>,
       <<"h", "t", "t", "p", ":", "/", "/", "a", "/", "|">>,
       <<"h", "t", "t", "p", ":", "/", "/", "a", "/", " ">>,
       <<"h", "t", "t", "p", ":", "/", "/", "a", "/", "uE000">>,
       <<"[">>,
       <<"]">>,
       <<"|">>,
       <<" ">>,
       <<"uE000">> >>
RELATIVE_IRIS ==
    << << <<"g", ":", "h">>,
          <<"g", ":", "h">> >>,
       << <<"g">>,
          <<"h", "t", "t", "p", ":", "/", "/", "a", "/", "b", "/", "c", "/", "g">> >>,
       << <<".", "/", "g">>,
          <<"h", "t", "t", "p", ":", "/", "/", "a", "/", "b", "/", "c", "/", "g">> >>,
       << <<"g", "/">>,
          <<"h", "t", "t", "p", ":", "/", "/", "a", "/", "b", "/", "c", "/", "g", "/">> >>,
       << <<"/", "g">>,
          <<"h", "t", "t", "p", ":", "/", "/", "a", "/", "g">> >>,
       << <<"/", "/", "g">>,
          <<"h", "t", "t", "p", ":", "/", "/", "g">> >>,
       << <<"?", "y">>,
          <<"h", "t", "t", "p", ":", "/", "/", "a", "/", "b", "/", "c", "/", "d", ";", "p", "?", "y">> >>,
       << <<"g", "?", "y">>,
          <<"h", "t", "t", "p", ":", "/", "/", "a", "/", "b", "/", "c", "/", "g", "?", "y">> >>,
       << <<"#", "s">>,
          <<"h", "t", "t", "p", ":", "/", "/", "a", "/", "b", "/", "c", "/", "d", ";", "p", "?", "q", "#", "s">> >>,
       << <<"g", "#", "s">>,
          <<"h", "t", "t", "p", ":", "/", "/", "a", "/", "b", "/", "c", "/", "g", "#", "s">> >>,
       << <<"g", "?", "y", "#", "s">>,
          <<"h", "t", "t", "p", ":", "/", "/", "a", "/", "b", "/", "c", "/", "g", "?", "y", "#", "s">> >>,
       << <<";", "x">>,
          <<"h", "t", "t", "p", ":", "/", "/", "a", "/", "b", "/", "c", "/", ";", "x">> >>,
       << <<"g", ";", "x">>,
          <<"h", "t", "t", "p", ":", "/", "/", "a", "/", "b", "/", "c", "/", "g", ";", "x">> >>,
       << <<"g", ";", "x", "?", "y", "#", "s">>,
          <<"h", "t", "t", "p", ":", "/", "/", "a", "/", "b", "/", "c", "/", "g", ";", "x", "?", "y", "#", "s">> >>,
       << <<>>,
          <<"h", "t", "t", "p", ":", "/", "/", "a", "/", "b", "/", "c", "/", "d", ";", "p", "?", "q">> >>,
       << <<".">>,
          <<"h", "t", "t", "p", ":", "/", "/", "a", "/", "b", "/", "c", "/">> >>,
       << <<".", "/">>,
          <<"h", "t", "t", "p", ":", "/", "/", "a", "/", "b", "/", "c", "/">> >>,
       << <<".", ".">>,
          <<"h", "t", "t", "p", ":", "/", "/", "a", "/", "b", "/">> >>,
       << <<".", ".", "/">>,
          <<"h", "t", "t", "p", ":", "/", "/", "a", "/", "b", "/">> >>,
       << <<".", ".", "/", "g">>,
          <<"h", "t", "t", "p", ":", "/", "/", "a", "/", "b", "/", "g">> >>,
       << <<".", ".", "/", ".", ".">>,
          <<"h", "t", "t", "p", ":", "/", "/", "a", "/">> >>,
       << <<".", ".", "/", ".", ".", "/">>,
          <<"h", "t", "t", "p", ":", "/", "/", "a", "/">> >>,
       << <<".", ".", "/", ".", ".", "/", "g">>,
          <<"h", "t", "t", "p", ":", "/", "/", "a", "/", "g">> >>,
       << <<".", ".", "/", ".", ".", "/", ".", ".", "/", "g">>,
          <<"h", "t", "t", "p", ":", "/", "/", "a", "/", "g">> >>,
       << <<".", ".", "/", ".", ".", "/", ".", ".", "/", ".", ".", "/", "g">>,
          <<"h", "t", "t", "p", ":", "/", "/", "a", "/", "g">> >>,
       << <<"/", ".", "/", "g">>,
          <<"h", "t", "t", "p", ":", "/", "/", "a", "/", "g">> >>,
       << <<"/", ".", ".", "/", "g">>,
          <<"h", "t", "t", "p", ":", "/", "/", "a", "/", "g">> >>,
       << <<"g", ".">>,
          <<"h", "t", "t", "p", ":", "/", "/", "a", "/", "b", "/", "c", "/", "g", ".">> >>,
       << <<".", "g">>,
          <<"h", "t", "t", "p", ":", "/", "/", "a", "/", "b", "/", "c", "/", ".", "g">> >>,
       << <<"g", ".", ".">>,
          <<"h", "t", "t", "p", ":", "/", "/", "a", "/", "b", "/", "c", "/", "g", ".", ".">> >>,
       << <<".", ".", "g">>,
          <<"h", "t", "t", "p", ":", "/", "/", "a", "/", "b", "/", "c", "/", ".", ".", "g">> >>,
       << <<".", "/", ".", ".", "/", "g">>,
          <<"h", "t", "t", "p", ":", "/", "/", "a", "/", "b", "/", "g">> >>,
       << <<".", "/", "g", "/", ".">>,
          <<"h", "t", "t", "p", ":", "/", "/", "a", "/", "b", "/", "c", "/", "g", "/">> >>,
       << <<"g", "/", ".", "/", "h">>,
          <<"h", "t", "t", "p", ":", "/", "/", "a", "/", "b", "/", "c", "/", "g", "/", "h">> >>,
       << <<"g", "/", ".", ".", "/", "h">>,
          <<"h", "t", "t", "p", ":", "/", "/", "a", "/", "b", "/", "c", "/", "h">> >>,
       << <<"g", ";", "x", "=", "1", "/", ".", "/", "y">>,
          <<"h", "t", "t", "p", ":", "/", "/", "a", "/", "b", "/", "c", "/", "g", ";", "x", "=", "1", "/", "y">> >>,
       << <<"g", ";", "x", "=", "1", "/", ".", ".", "/", "y">>,
          <<"h", "t", "t", "p", ":", "/", "/", "a", "/", "b", "/", "c", "/", "y">> >>,
       << <<"g", "?", "y", "/", ".", "/", "x">>,
          <<"h", "t", "t", "p", ":", "/", "/", "a", "/", "b", "/", "c", "/", "g", "?", "y", "/", ".", "/", "x">> >>,
       << <<"g", "?", "y", "/", ".", ".", "/", "x">>,
          <<"h", "t", "t", "p", ":", "/", "/", "a", "/", "b", "/", "c", "/", "g", "?", "y", "/", ".", ".", "/", "x">> >>,
       << <<"g", "#", "s", "/", ".", "/", "x">>,
          <<"h", "t", "t", "p", ":", "/", "/", "a", "/", "b", "/", "c", "/", "g", "#", "s", "/", ".", "/", "x">> >>,
       << <<"g", "#", "s", "/", ".", ".", "/", "x">>,
          <<"h", "t", "t", "p", ":", "/", "/", "a", "/", "b", "/", "c", "/", "g", "#", "s", "/", ".", ".", "/", "x">> >> >>

(***************************************************************************)
(* The IRI functions applied to a text: the validators, then               *)
(* ParsedIri::new, then to_string of the result.                           *)
(***************************************************************************)
MaxTextLen == 4
MaxHostLen == 4
TextAlphabet == {"a", "1", ":", "/", "?", "#", ".", "@", "%"}
HostAlphabet == {"1", ":"}
TextsOver(A, n) == UNION {[1..k -> A] : k \in 0..n}
SeqRange(f) == {f[k] : k \in DOMAIN f}
\* "//[" host "]"
BracketTexts == {<<"/", "/", "[">> \o h \o <<"]">> : h \in TextsOver(HostAlphabet, MaxHostLen)}
TableTexts ==
    {e[1] : e \in SeqRange(POSITIVE_IRIS)} \cup SeqRange(NEGATIVE_IRIS)
    \cup {e[1] : e \in SeqRange(RELATIVE_IRIS)}
IriTexts == TextsOver(TextAlphabet, MaxTextLen) \cup BracketTexts \cup TableTexts

NoAnswer == [is_valid |-> FALSE, is_absolute |-> FALSE, is_relative |-> FALSE]

NoCall ==
    [op |-> "none", x |-> << >>, ok |-> TRUE, ret |-> FALSE, vec |-> << >>, set |-> {}]
ContIdle ==
    /\ kind = "none"
    /\ vec = << >>
    /\ set = {}
    /\ last = NoCall
    /\ prev = NoCall
NoView == [op |-> "none", arg |-> << >>, items |-> << >>]
NoRds == [pc |-> "idle", input |-> << >>, path |-> << >>, i |-> 0,
          before |-> [path |-> << >>, i |-> 0]]
Factory_new == [alive |-> TRUE, table |-> {}, heap |-> << >>]
NoFactoryCall ==
    [op |-> "none", ok |-> TRUE,
     rc |-> [before |-> Factory_new, gets |-> << >>],
     arc |-> [before |-> Factory_new, gets |-> << >>]]
FacIdle ==
    /\ rcf = Factory_new
    /\ arcf = Factory_new
    /\ held = << >>
    /\ fcall = NoFactoryCall
JoinIdle ==
    /\ base = ParsedIri_default
    /\ ref = ParsedIri_default
    /\ jpc = "idle"
    /\ joined = ParsedIri_default
IriIdle ==
    /\ text = << >>
    /\ ipc = "idle"
    /\ valid = NoAnswer
    /\ pi = ParsedIri_default
IriInit ==
    /\ text \in IriTexts
    /\ ipc = "input"
    /\ valid = NoAnswer
    /\ pi = ParsedIri_default
    /\ rendered = << >>
    /\ JoinIdle
    /\ ContIdle
    /\ view = NoView
    /\ rds = NoRds
    /\ FacIdle

Validate ==
    /\ ipc = "input"
    /\ valid' = [is_valid |-> is_valid_iri(text),
                 is_absolute |-> is_absolute_iri(text),
                 is_relative |-> is_relative_iri(text)]
    /\ ipc' = "validated"
    /\ UNCHANGED <<text, pi, rendered, joinVars, contVars, view, facVars, rds>>

NewReturns(r) ==
    /\ ipc' = IF r.ok THEN "parsed" ELSE "rejected"
    /\ pi' = r.pi
New ==
    /\ ipc = "validated"
    /\ NewReturns(ParsedIri_new(text))
    /\ UNCHANGED <<text, valid, rendered, joinVars, contVars, view, facVars, rds>>

Render ==
    /\ ipc = "parsed"
    /\ rendered' = to_string(pi)
    /\ ipc' = "rendered"
    /\ UNCHANGED <<text, valid, pi, joinVars, contVars, view, facVars, rds>>

IriNext == Validate \/ New \/ Render
SpecIri == IriInit /\ [][IriNext]_vars

\* C1: for every text t that ParsedIri::new accepts, to_string applied to
\* the parse result returns exactly t.
C1_ParseRoundTrip == ipc = "rendered" => rendered = text

\* C5: ParsedIri::new accepts a text exactly when is_valid_iri does; for an
\* accepted text exactly one of is_absolute_iri and is_relative_iri holds,
\* and is_absolute_iri holds exactly when the parse result has a scheme.
C5_RecognizersAgree ==
    ipc \in {"parsed", "rejected", "rendered"} =>
        /\ valid.is_valid = (ipc # "rejected")
        /\ ipc # "rejected" =>
            /\ valid.is_absolute # valid.is_relative
            /\ valid.is_absolute = is_absolute(pi)

(***************************************************************************)
(* Reference resolution: a base and a reference, both results of           *)
(* ParsedIri::new, then base.join(&reference), then to_string of the       *)
(* result (test::relative).                                                *)
(***************************************************************************)
MaxBaseSegs == 2
MaxRefSegs == 2
BaseSegments == {<< >>, DOTDOT, <<"b">>}
RefSegments == {<< >>, DOT, DOTDOT, <<"g">>}
\* the paths of at most n segments of S, as texts
PathTexts(S, n) == {slice_join(p, <<"/">>) : p \in TextsOver(S, n)}
RFC3986_BASE == <<"h", "t", "t", "p", ":", "/", "/", "a", "/", "b", "/", "c", "/", "d", ";", "p", "?", "q">>
BaseTexts ==
    {s \o a \o p \o q :
        s \in {<< >>, <<"a", ":">>}, a \in {<< >>, <<"/", "/", "h">>},
        p \in PathTexts(BaseSegments, MaxBaseSegs), q \in {<< >>, <<"?", "q">>}}
    \cup {RFC3986_BASE}
RefTexts ==
    {sa \o p \o qf :
        sa \in {<< >>, <<"g", ":">>, <<"/", "/", "g">>},
        p \in PathTexts(RefSegments, MaxRefSegs),
        qf \in {<< >>, <<"?", "y", "#", "s">>}}
    \cup {e[1] : e \in SeqRange(RELATIVE_IRIS)}
\* the results of ParsedIri::new on the texts of T it accepts
ParsedOf(T) == {ParsedIri_new(t).pi : t \in {u \in T : ParsedIri_new(u).ok}}
JoinBases == ParsedOf(BaseTexts)
JoinRefs == ParsedOf(RefTexts)

JoinInit ==
    /\ base \in JoinBases
    /\ ref \in JoinRefs
    /\ jpc = "parsed"
    /\ joined = ParsedIri_default
    /\ rendered = << >>
    /\ IriIdle
    /\ ContIdle
    /\ view = NoView
    /\ rds = NoRds
    /\ FacIdle

\* base.join(&ref) returns
Join ==
    /\ jpc = "parsed"
    /\ joined' = join(base, ref)
    /\ jpc' = "joined"
    /\ UNCHANGED <<base, ref, rendered, iriVars, contVars, view, facVars, rds>>
\* base.join(&ref) panics: attempt to subtract with overflow
JoinPanic ==
    /\ jpc = "parsed"
    /\ join_overflows(base, ref)
    /\ jpc' = "panicked"
    /\ UNCHANGED <<base, ref, joined, rendered, iriVars, contVars, view, facVars, rds>>
JoinRender ==
    /\ jpc = "joined"
    /\ rendered' = to_string(joined)
    /\ jpc' = "rendered"
    /\ UNCHANGED <<base, ref, joined, iriVars, contVars, view, facVars, rds>>

JoinNext == Join \/ JoinPanic \/ JoinRender
SpecJoin == JoinInit /\ [][JoinNext]_vars

\* test::relative: the base of the tables and the parsed references with
\* the targets the tables list
RFC3986_BASE_PARSED == ParsedIri_new(RFC3986_BASE).pi
RELATIVE_PARSED ==
    {[ref |-> ParsedIri_new(e[1]).pi, expected |-> e[2]] : e \in SeqRange(RELATIVE_IRIS)}

\* C2: with base "http://a/b/c/d;p?q", for every reference of the RFC 3986
\* section 5.4 tables, to_string(base.join(parse(reference))) is the listed
\* target.
C2_ReferenceResolutionExamples ==
    (jpc = "rendered" /\ base = RFC3986_BASE_PARSED) =>
        \A e \in RELATIVE_PARSED : e.ref = ref => rendered = e.expected
\* "../../../g" has been resolved to "http://a/g"
C2_Witness ==
    /\ jpc = "rendered"
    /\ base = RFC3986_BASE_PARSED
    /\ ref = ParsedIri(None, None, <<DOTDOT, DOTDOT, DOTDOT, <<"g">>>>, None, None)
    /\ rendered = <<"h", "t", "t", "p", ":", "/", "/", "a", "/", "g">>

\* C3: for every parsed base and reference, join returns a result and never
\* panics or underflows an index computation.
C3_JoinCannotFail == jpc # "panicked"

\* The transformation of C4, written from its five cases.
C4_all_but_last(p) == IF Len(p) = 0 THEN p ELSE SubSeq(p, 1, Len(p) - 1)
C4_merge(B, P) ==
    IF is_some(B.authority) /\ Len(B.path) = 0 THEN << << >> >> \o P
    ELSE C4_all_but_last(B.path) \o P
C4_transform(B, R) ==
    IF is_some(R.scheme)
    THEN ParsedIri(R.scheme, R.authority, remove_dot_segments(R.path), R.query, R.fragment)
    ELSE IF is_some(R.authority)
    THEN ParsedIri(B.scheme, R.authority, remove_dot_segments(R.path), R.query, R.fragment)
    ELSE IF Len(R.path) = 0
    THEN ParsedIri(B.scheme, B.authority, B.path,
                   IF is_some(R.query) THEN R.query ELSE B.query, R.fragment)
    ELSE IF R.path[1] = << >>
    THEN ParsedIri(B.scheme, B.authority, remove_dot_segments(R.path), R.query, R.fragment)
    ELSE ParsedIri(B.scheme, B.authority, remove_dot_segments(C4_merge(B, R.path)),
                   R.query, R.fragment)
\* C4: for every parsed base B and reference R, join(B, R) returns the
\* five-case transformation of B and R.
C4_JoinIsFiveCaseTransformation ==
    jpc # "parsed" => (jpc # "panicked" /\ joined = C4_transform(base, ref))

(***************************************************************************)
(* Terms and graph keys.  A term is a tag, its text as a namespace and an  *)
(* optional suffix, and the string holder it is stored in.  Two terms are  *)
(* equal when their tags and the concatenations of their texts are, in     *)
(* whatever holders they are; BoxTerm::from copies a term into Box<str>    *)
(* holders and keeps the split of its text.                                *)
(***************************************************************************)
Term(tag, ns, suffix, holder) ==
    [tag |-> tag, ns |-> ns, suffix |-> suffix, holder |-> holder]
term_value(t) == t.ns \o (IF is_some(t.suffix) THEN t.suffix[1] ELSE << >>)
TermEq(a, b) == a.tag = b.tag /\ term_value(a) = term_value(b)
BoxTerm_from(t) == [t EXCEPT !.holder = "Box<str>"]
GraphKey_Default == [tag |-> "Default", term |-> None]
GraphKey_Named(t) == [tag |-> "Named", term |-> Some(t)]
GraphKey_from(g) ==
    IF g.tag = "Named" THEN GraphKey_Named(BoxTerm_from(g.term[1]))
    ELSE GraphKey_Default
GraphKeyEq(a, b) ==
    a.tag = b.tag /\ (a.tag = "Named" => TermEq(a.term[1], b.term[1]))

(***************************************************************************)
(* Vec and HashSet as the containers use them.  An element is a triple     *)
(* <<s, p, o>> of BoxTerms or a quad << <<s, p, o>>, g >>.                 *)
(***************************************************************************)
\* Eq of [BoxTerm;3] and of ([BoxTerm;3], GraphKey<Box<str>>)
TripleEq(a, b) == \A k \in 1..3 : TermEq(a[k], b[k])
QuadEq(a, b) == TripleEq(a[1], b[1]) /\ GraphKeyEq(a[2], b[2])
Elem_eq(a, b) == IF Len(a) = 2 THEN QuadEq(a, b) ELSE TripleEq(a, b)

\* A faulty push: the new element goes in front.
Vec_push_front(v, x) == <<x>> \o v
Vec_push(v, x) == Append(v, x)
\* A faulty swap_remove: element i and everything after it go.
Vec_truncate(v, i) == SubSeq(v, 1, i)
\* Vec::swap_remove(i), i counted from 0: the last element takes the place
\* of element i
Vec_swap_remove(v, i) ==
    IF i = Len(v) - 1 THEN SubSeq(v, 1, Len(v) - 1)
    ELSE [SubSeq(v, 1, Len(v) - 1) EXCEPT ![i + 1] = v[Len(v)]]
\* Iterator::position over the indices I that satisfy the closure
first_position(I) ==
    IF I = {} THEN None ELSE Some((CHOOSE i \in I : \A j \in I : i <= j) - 1)

\* as_triple_source / as_quad_source: every element of an in-memory
\* container is yielded as Ok(element)
Ok(v) == [ok |-> TRUE, val |-> v]
\* A faulty iteration: from the last index down to the first.
Vec_triples_rev(self) == [i \in 1..Len(self) |-> Ok(self[Len(self) + 1 - i])]
\* Graph for Vec<T>::triples and Dataset for Vec<Q>::quads: <[T]>::iter,
\* in index order
Vec_triples(self) == [i \in 1..Len(self) |-> Ok(self[i])]
\* Graph for HashSet<T>::triples and Dataset for HashSet<Q>::quads: what
\* HashSet::iter yields, every element once, in no order one can rely on
HashSet_triples(self) == {Ok(e) : e \in self}

\* A faulty insert: the element is added whatever the set holds.
HashSet_insert_always(self, x) == [self |-> self \cup {x}, ok |-> TRUE, ret |-> TRUE]
\* Ok(HashSet::insert(self, x))
HashSet_insert(self, x) ==
    IF \E e \in self : Elem_eq(e, x) THEN [self |-> self, ok |-> TRUE, ret |-> FALSE]
    ELSE [self |-> self \cup {x}, ok |-> TRUE, ret |-> TRUE]
\* A faulty remove: it reports the element and leaves it in the set.
HashSet_remove_keeps(self, x) ==
    [self |-> self, ok |-> TRUE, ret |-> \E e \in self : Elem_eq(e, x)]
\* Ok(HashSet::remove(self, &x))
HashSet_remove(self, x) ==
    [self |-> {e \in self : ~Elem_eq(e, x)}, ok |-> TRUE,
     ret |-> \E e \in self : Elem_eq(e, x)]

(***************************************************************************)
(* graph/_ext_impl.rs: MutableGraph for Vec<[BoxTerm;3]> and for           *)
(* HashSet<[BoxTerm;3]>.  A call gives the container after it and the      *)
(* Result it returns: ok for Ok, ret for the bool in it.                   *)
(***************************************************************************)
VecGraph_insert(self, s, p, o) ==
    [self |-> Vec_push(self, <<BoxTerm_from(s), BoxTerm_from(p), BoxTerm_from(o)>>),
     ok |-> TRUE, ret |-> TRUE]
\* A faulty position: terms match only when they are the same value,
\* holder included.
VecGraph_position_same_holder(self, s, p, o) ==
    first_position({i \in 1..Len(self) :
        s = self[i][1] /\ p = self[i][2] /\ o = self[i][3]})
\* A faulty position: the index of the last element that matches.
VecGraph_position_last(self, s, p, o) ==
    IF \E i \in 1..Len(self) :
            TermEq(s, self[i][1]) /\ TermEq(p, self[i][2]) /\ TermEq(o, self[i][3])
    THEN Some((CHOOSE i \in 1..Len(self) :
                /\ TermEq(s, self[i][1]) /\ TermEq(p, self[i][2]) /\ TermEq(o, self[i][3])
                /\ \A j \in (i + 1)..Len(self) :
                        ~(/\ TermEq(s, self[j][1]) /\ TermEq(p, self[j][2])
                          /\ TermEq(o, self[j][3]))) - 1)
    ELSE None
VecGraph_position(self, s, p, o) ==
    first_position({i \in 1..Len(self) :
        TermEq(s, self[i][1]) /\ TermEq(p, self[i][2]) /\ TermEq(o, self[i][3])})
\* A faulty remove: an element that is not found is reported as an error.
Vec_remove_at_or_err(self, i) ==
    IF is_some(i) THEN [self |-> Vec_swap_remove(self, i[1]), ok |-> TRUE, ret |-> TRUE]
    ELSE [self |-> self, ok |-> FALSE, ret |-> FALSE]
\* if let Some(i) = i { self.swap_remove(i); Ok(true) } else { Ok(false) }
Vec_remove_at(self, i) ==
    IF is_some(i) THEN [self |-> Vec_swap_remove(self, i[1]), ok |-> TRUE, ret |-> TRUE]
    ELSE [self |-> self, ok |-> TRUE, ret |-> FALSE]
VecGraph_remove(self, s, p, o) == Vec_remove_at(self, VecGraph_position(self, s, p, o))
HashSetGraph_insert(self, s, p, o) ==
    HashSet_insert(self, <<BoxTerm_from(s), BoxTerm_from(p), BoxTerm_from(o)>>)
HashSetGraph_remove(self, s, p, o) ==
    HashSet_remove(self, <<BoxTerm_from(s), BoxTerm_from(p), BoxTerm_from(o)>>)

(***************************************************************************)
(* dataset/_ext_impl.rs: MutableDataset for Vec and HashSet of             *)
(* ([BoxTerm;3], GraphKey<Box<str>>).                                      *)
(***************************************************************************)
VecDataset_insert(self, s, p, o, g) ==
    [self |-> Vec_push(self, << <<BoxTerm_from(s), BoxTerm_from(p), BoxTerm_from(o)>>,
                                GraphKey_from(g) >>),
     ok |-> TRUE, ret |-> TRUE]
\* A faulty position: the graph key is not compared.
VecDataset_position_any_graph(self, s, p, o, g) ==
    first_position({i \in 1..Len(self) :
        /\ TermEq(s, self[i][1][1]) /\ TermEq(p, self[i][1][2])
        /\ TermEq(o, self[i][1][3])})
VecDataset_position(self, s, p, o, g) ==
    first_position({i \in 1..Len(self) :
        /\ TermEq(s, self[i][1][1]) /\ TermEq(p, self[i][1][2])
        /\ TermEq(o, self[i][1][3]) /\ GraphKeyEq(g, self[i][2])})
VecDataset_remove(self, s, p, o, g) ==
    Vec_remove_at(self, VecDataset_position(self, s, p, o, g))
HashSetDataset_insert(self, s, p, o, g) ==
    HashSet_insert(self, << <<BoxTerm_from(s), BoxTerm_from(p), BoxTerm_from(o)>>,
                            GraphKey_from(g) >>)
HashSetDataset_remove(self, s, p, o, g) ==
    HashSet_remove(self, << <<BoxTerm_from(s), BoxTerm_from(p), BoxTerm_from(o)>>,
                            GraphKey_from(g) >>)

(***************************************************************************)
(* The containers: one of the four implementations, created empty, then    *)
(* any sequence of insert and remove calls with terms of the caller.  The  *)
(* caller's terms sit in holders of its own; the IRI "ab" comes both whole *)
(* and split into a namespace and a suffix.                                *)
(***************************************************************************)
MaxVecLen == 3
IRI_AB == Term("Iri", <<"a", "b">>, None, "&str")
IRI_A_B == Term("Iri", <<"a">>, Some(<<"b">>), "Rc<str>")
BNODE_AB == Term("BNode", <<"a", "b">>, None, "&str")
Subjects == {IRI_AB, IRI_A_B, BNODE_AB}
Predicates == {Term("Iri", <<"p">>, None, "&str")}
Objects == {Term("Literal", <<"o">>, None, "Rc<str>")}
GraphKeys == {GraphKey_Default, GraphKey_Named(IRI_A_B)}
Kinds == {"VecGraph", "HashSetGraph", "VecDataset", "HashSetDataset"}

ContInit ==
    /\ kind \in Kinds
    /\ vec = << >>
    /\ set = {}
    /\ last = NoCall
    /\ prev = NoCall
    /\ rendered = << >>
    /\ IriIdle
    /\ JoinIdle
    /\ view = NoView
    /\ rds = NoRds
    /\ FacIdle

\* the call op(x) returns r.ret and leaves the container r.self
VecReturns(op, x, r) ==
    /\ vec' = r.self
    /\ last' = [op |-> op, x |-> x, ok |-> r.ok, ret |-> r.ret, vec |-> vec, set |-> set]
    /\ prev' = last
    /\ UNCHANGED <<kind, set, rendered, iriVars, joinVars, view, facVars, rds>>
HashSetReturns(op, x, r) ==
    /\ set' = r.self
    /\ last' = [op |-> op, x |-> x, ok |-> r.ok, ret |-> r.ret, vec |-> vec, set |-> set]
    /\ prev' = last
    /\ UNCHANGED <<kind, vec, rendered, iriVars, joinVars, view, facVars, rds>>

VecGraphInsert ==
    /\ kind = "VecGraph"
    /\ Len(vec) < MaxVecLen
    /\ \E s \in Subjects, p \in Predicates, o \in Objects :
        VecReturns("insert", <<s, p, o>>, VecGraph_insert(vec, s, p, o))
VecGraphRemove ==
    /\ kind = "VecGraph"
    /\ \E s \in Subjects, p \in Predicates, o \in Objects :
        VecReturns("remove", <<s, p, o>>, VecGraph_remove(vec, s, p, o))
HashSetGraphInsert ==
    /\ kind = "HashSetGraph"
    /\ \E s \in Subjects, p \in Predicates, o \in Objects :
        HashSetReturns("insert", <<s, p, o>>, HashSetGraph_insert(set, s, p, o))
HashSetGraphRemove ==
    /\ kind = "HashSetGraph"
    /\ \E s \in Subjects, p \in Predicates, o \in Objects :
        HashSetReturns("remove", <<s, p, o>>, HashSetGraph_remove(set, s, p, o))
VecDatasetInsert ==
    /\ kind = "VecDataset"
    /\ Len(vec) < MaxVecLen
    /\ \E s \in Subjects, p \in Predicates, o \in Objects, g \in GraphKeys :
        VecReturns("insert", <<s, p, o, g>>, VecDataset_insert(vec, s, p, o, g))
VecDatasetRemove ==
    /\ kind = "VecDataset"
    /\ \E s \in Subjects, p \in Predicates, o \in Objects, g \in GraphKeys :
        VecReturns("remove", <<s, p, o, g>>, VecDataset_remove(vec, s, p, o, g))
HashSetDatasetInsert ==
    /\ kind = "HashSetDataset"
    /\ \E s \in Subjects, p \in Predicates, o \in Objects, g \in GraphKeys :
        HashSetReturns("insert", <<s, p, o, g>>, HashSetDataset_insert(set, s, p, o, g))
HashSetDatasetRemove ==
    /\ kind = "HashSetDataset"
    /\ \E s \in Subjects, p \in Predicates, o \in Objects, g \in GraphKeys :
        HashSetReturns("remove", <<s, p, o, g>>, HashSetDataset_remove(set, s, p, o, g))

ContNext ==
    \/ VecGraphInsert \/ VecGraphRemove
    \/ HashSetGraphInsert \/ HashSetGraphRemove
    \/ VecDatasetInsert \/ VecDatasetRemove
    \/ HashSetDatasetInsert \/ HashSetDatasetRemove
SpecContainers == ContInit /\ [][ContNext]_vars

\* What the claims on containers speak of.
IsVec == kind \in {"VecGraph", "VecDataset"}
IsHashSet == kind \in {"HashSetGraph", "HashSetDataset"}
\* the stored element e equals the arguments x of a call
Matches(e, x) ==
    IF Len(x) = 4
    THEN /\ TermEq(x[1], e[1][1]) /\ TermEq(x[2], e[1][2])
         /\ TermEq(x[3], e[1][3]) /\ GraphKeyEq(x[4], e[2])
    ELSE TermEq(x[1], e[1]) /\ TermEq(x[2], e[2]) /\ TermEq(x[3], e[3])
\* how many elements of the sequence v equal the arguments x
Count(v, x) == Cardinality({i \in 1..Len(v) : Matches(v[i], x)})
\* how many times the element y occurs in the sequence v
Occurrences(v, y) == Cardinality({i \in 1..Len(v) : v[i] = y})

\* C6: on a Vec of triples or of quads, insert returns true and appends:
\* the length grows by one, the new last element equals x, the earlier
\* elements are unchanged; insert(x); insert(x) leaves two more elements
\* equal to x.
C6_VecInsertAppends ==
    (IsVec /\ last.op = "insert") =>
        /\ last.ret
        /\ Len(vec) = Len(last.vec) + 1
        /\ Matches(vec[Len(vec)], last.x)
        /\ SubSeq(vec, 1, Len(vec) - 1) = last.vec
        /\ (prev.op = "insert" /\ prev.x = last.x) =>
                Count(vec, last.x) = Count(prev.vec, last.x) + 2
\* x has been inserted twice in a row after another element
C6_Witness ==
    /\ IsVec /\ last.op = "insert" /\ prev.op = "insert" /\ prev.x = last.x
    /\ Len(vec) = 3 /\ ~Matches(vec[1], last.x) /\ Count(vec, last.x) = 2

\* C7: on a HashSet of triples or of quads, insert(x) returns true exactly
\* when no element equal to x was present before the call; no two equal
\* elements ever coexist; after insert(x); insert(x) exactly one element
\* equals x and the second call returned false.
C7_HashSetInsertDedups ==
    IsHashSet =>
        /\ \A a \in set, b \in set : Elem_eq(a, b) => a = b
        /\ last.op = "insert" =>
                last.ret = ~(\E e \in last.set : Matches(e, last.x))
        /\ (last.op = "insert" /\ prev.op = "insert" /\ prev.x = last.x) =>
                /\ ~last.ret
                /\ Cardinality({e \in set : Matches(e, last.x)}) = 1
\* x has been inserted twice in a row into a set holding another element
C7_Witness ==
    /\ IsHashSet /\ last.op = "insert" /\ prev.op = "insert" /\ prev.x = last.x
    /\ ~last.ret /\ Cardinality(set) = 2

\* C8: for the four containers, remove(x) returns true exactly when an
\* element equal to x existed before the call; when it returns false the
\* contents, and the order of a Vec, are unchanged.
C8_RemoveReportsPresence ==
    last.op = "remove" =>
        /\ last.ret = IF IsVec THEN Count(last.vec, last.x) > 0
                      ELSE \E e \in last.set : Matches(e, last.x)
        /\ ~last.ret => (vec = last.vec /\ set = last.set)
\* remove(x) has returned false on a container that holds other elements
C8_Witness ==
    /\ last.op = "remove" /\ ~last.ret
    /\ (Len(vec) >= 2 \/ Cardinality(set) >= 2)

\* C9: on a Vec holding k >= 1 elements equal to x, remove(x) leaves k-1
\* elements equal to x, a length one smaller, and as many occurrences of
\* every other element as before.
C9_VecRemoveRemovesOne ==
    (IsVec /\ last.op = "remove" /\ Count(last.vec, last.x) >= 1) =>
        /\ Count(vec, last.x) = Count(last.vec, last.x) - 1
        /\ Len(vec) = Len(last.vec) - 1
        /\ \A i \in 1..Len(last.vec) :
                ~Matches(last.vec[i], last.x) =>
                    Occurrences(vec, last.vec[i]) = Occurrences(last.vec, last.vec[i])
\* remove(x) has taken one of two elements equal to x, ahead of another
\* element
C9_Witness ==
    /\ IsVec /\ last.op = "remove" /\ Len(last.vec) = 3
    /\ Count(last.vec, last.x) = 2 /\ Matches(last.vec[1], last.x)
    /\ ~Matches(last.vec[3], last.x) /\ Count(vec, last.x) = 1

\* C10 as stated: on a HashSet, insert(x) followed by remove(x) leaves the
\* container with exactly the elements it had before the insert.
C10_InsertThenRemove ==
    (IsHashSet /\ last.op = "remove" /\ prev.op = "insert" /\ prev.x = last.x) =>
        set = prev.set
\* C10 amended: on a HashSet that holds no element equal to x, insert(x)
\* followed by remove(x) leaves the container with exactly the elements it
\* had before the insert.
C10_InsertThenRemoveWhenAbsent ==
    (/\ IsHashSet /\ last.op = "remove" /\ prev.op = "insert" /\ prev.x = last.x
     /\ ~(\E e \in prev.set : Matches(e, prev.x))) =>
        set = prev.set
\* x, absent from a set that is not empty, has been inserted and removed
C10_Witness ==
    /\ IsHashSet /\ last.op = "remove" /\ prev.op = "insert" /\ prev.x = last.x
    /\ ~(\E e \in prev.set : Matches(e, prev.x))
    /\ prev.set # {} /\ last.ret

\* the elements triples() / quads() yields on the Vec v, in order
C11_yielded(v) == [i \in 1..Len(v) |-> Vec_triples(v)[i].val]
\* the sequence v without its element i
C11_without(v, i) == SubSeq(v, 1, i - 1) \o SubSeq(v, i + 1, Len(v))
\* the index of the first element of v equal to the arguments x
C11_first(v, x) ==
    CHOOSE i \in 1..Len(v) :
        Matches(v[i], x) /\ \A j \in 1..(i - 1) : ~Matches(v[j], x)
\* C11 as stated: after any insert or remove on a Vec, triples() / quads()
\* yields the surviving elements in the order of their insertion: an insert
\* adds its element at the end, a remove takes one element equal to x out
\* and leaves the others in their order.
C11_IterationIsInsertionOrder ==
    IsVec =>
        /\ last.op = "insert" =>
                /\ SubSeq(C11_yielded(vec), 1, Len(vec) - 1) = C11_yielded(last.vec)
                /\ Matches(C11_yielded(vec)[Len(vec)], last.x)
        /\ (last.op = "remove" /\ ~last.ret) =>
                C11_yielded(vec) = C11_yielded(last.vec)
        /\ (last.op = "remove" /\ last.ret) =>
                \E i \in 1..Len(last.vec) :
                    /\ Matches(last.vec[i], last.x)
                    /\ C11_yielded(vec) = C11_without(C11_yielded(last.vec), i)
\* C11 amended: triples() / quads() yields a Vec in index order.  That is
\* insertion order after an insert, after a remove that returns false and
\* after a remove whose first match is the last element; any other remove
\* puts the last element in the place of the first match and leaves the
\* remaining elements in their order.
C11_OrderKeptUpToSwap ==
    IsVec =>
        /\ last.op = "insert" =>
                /\ SubSeq(C11_yielded(vec), 1, Len(vec) - 1) = C11_yielded(last.vec)
                /\ Matches(C11_yielded(vec)[Len(vec)], last.x)
        /\ (last.op = "remove" /\ ~last.ret) =>
                C11_yielded(vec) = C11_yielded(last.vec)
        /\ (last.op = "remove" /\ last.ret) =>
                IF C11_first(last.vec, last.x) = Len(last.vec)
                THEN C11_yielded(vec) = C11_without(C11_yielded(last.vec), Len(last.vec))
                ELSE /\ C11_yielded(vec)[C11_first(last.vec, last.x)] = last.vec[Len(last.vec)]
                     /\ C11_without(C11_yielded(vec), C11_first(last.vec, last.x))
                        = C11_without(C11_without(C11_yielded(last.vec), Len(last.vec)),
                                      C11_first(last.vec, last.x))
\* a remove has taken the first of three different elements
C11_Witness ==
    /\ IsVec /\ last.op = "remove" /\ last.ret /\ Len(last.vec) = 3
    /\ C11_first(last.vec, last.x) = 1
    /\ last.vec[2] # last.vec[3]
    /\ C11_yielded(vec) = <<last.vec[3], last.vec[2]>>

(***************************************************************************)
(* term/factory.rs.  A factory is a WeakHashSet of weak references to the  *)
(* strings it allocated: table holds the allocations it refers to, heap    *)
(* the allocations themselves, each with its text and its strong count     *)
(* (the number of holders outside the factory).  An entry whose strong     *)
(* count is 0 is expired.  The WeakHashSet drops expired entries when it   *)
(* pleases: an insert overwrites those it meets where the new entry        *)
(* hashes, which the caller cannot tell; purge stands for them.            *)
(***************************************************************************)
\* Rc::from(txt) / Arc::from(txt)
Alloc(flavor, txt) == [flavor |-> flavor, text |-> txt, strong |-> 1]
holder_clone(f, i) == [f EXCEPT !.heap[i].strong = @ + 1]
holder_drop(f, i) == [f EXCEPT !.heap[i].strong = @ - 1]
expired(f) == {i \in f.table : f.heap[i].strong = 0}
\* WeakHashSet::get: the entry that is not expired and whose text is txt
WeakHashSet_get(f, txt) ==
    IF \E i \in f.table : f.heap[i].strong > 0 /\ f.heap[i].text = txt
    THEN Some(CHOOSE i \in f.table : f.heap[i].strong > 0 /\ f.heap[i].text = txt)
    ELSE None
WeakHashSet_insert(f, i, purge) ==
    [f EXCEPT !.table = (@ \ (purge \cap expired(f))) \cup {i}]
WeakHashSet_shrink_to_fit(f) == [f EXCEPT !.table = @ \ expired(f)]
\* A faulty drop of the factory: it frees the strings it refers to.
WeakHashSet_drop_frees(f) ==
    [alive |-> FALSE, table |-> {},
     heap |-> [i \in 1..Len(f.heap) |->
                IF i \in f.table THEN [f.heap[i] EXCEPT !.strong = 0] ELSE f.heap[i]]]
\* the factory goes out of scope: its weak references go, the strings stay
WeakHashSet_drop(f) == [f EXCEPT !.alive = FALSE, !.table = {}]

\* if let Some(holder) = self.get(txt) { holder }
get_holder_found(f, i) == [f |-> holder_clone(f, i), hit |-> TRUE, holder |-> i]
\* A faulty miss: the table keeps the clone it is given, a strong reference.
get_holder_new_strong(f, flavor, txt, purge) ==
    [f |-> WeakHashSet_insert(
            [f EXCEPT !.heap = Append(@, [Alloc(flavor, txt) EXCEPT !.strong = 2])],
            Len(f.heap) + 1, purge),
     hit |-> FALSE, holder |-> Len(f.heap) + 1]
\* else { let holder = Rc::from(txt); self.insert(holder.clone()); holder }
get_holder_new(f, flavor, txt, purge) ==
    [f |-> WeakHashSet_insert([f EXCEPT !.heap = Append(@, Alloc(flavor, txt))],
                              Len(f.heap) + 1, purge),
     hit |-> FALSE, holder |-> Len(f.heap) + 1]
get_holder_at(f, flavor, txt, purge, found) ==
    IF is_some(found) THEN get_holder_found(f, found[1])
    ELSE get_holder_new(f, flavor, txt, purge)
\* A faulty get_holder: it never looks the text up.
RcTermFactory_get_holder_new(self, txt, purge) ==
    get_holder_new(self, "Rc", txt, purge)
RcTermFactory_get_holder(self, txt, purge) ==
    get_holder_at(self, "Rc", txt, purge, WeakHashSet_get(self, txt))
\* A faulty get_holder: it takes every entry for expired.
ArcTermFactory_get_holder_new(self, txt, purge) ==
    get_holder_new(self, "Arc", txt, purge)
ArcTermFactory_get_holder(self, txt, purge) ==
    get_holder_at(self, "Arc", txt, purge, WeakHashSet_get(self, txt))
get_holder(self, flavor, txt, purge) ==
    IF flavor = "Rc" THEN RcTermFactory_get_holder(self, txt, purge)
    ELSE ArcTermFactory_get_holder(self, txt, purge)

\* What a call on a factory leaves: the factory, its get_holder calls in
\* order (text, factory before and after, hit or miss, holder) and the
\* holders the caller owns once the call is over.
GetRec(txt, before, r) ==
    [txt |-> txt, before |-> before, after |-> r.f, hit |-> r.hit, holder |-> r.holder]
Owned(txt, r) == [text |-> txt, holder |-> r.holder]
get_holder_call(self, txt, r) ==
    [f |-> r.f, ok |-> TRUE, gets |-> <<GetRec(txt, self, r)>>,
     owned |-> <<Owned(txt, r)>>]
\* Term::new_iri(holder): Ok when the text is an IRI or a relative reference
Term_new_iri(txt) == is_valid_iri(txt)
\* A faulty iri: on Err the holder is kept alive (mem::forget).
iri_call_leaks(self, iri, r) ==
    [f |-> r.f, ok |-> Term_new_iri(iri), gets |-> <<GetRec(iri, self, r)>>,
     owned |-> IF Term_new_iri(iri) THEN <<Owned(iri, r)>> ELSE << >>]
\* TermFactory::iri: on Err the holder just obtained is dropped
iri_call(self, iri, r) ==
    IF Term_new_iri(iri)
    THEN [f |-> r.f, ok |-> TRUE, gets |-> <<GetRec(iri, self, r)>>,
          owned |-> <<Owned(iri, r)>>]
    ELSE [f |-> holder_drop(r.f, r.holder), ok |-> FALSE,
          gets |-> <<GetRec(iri, self, r)>>, owned |-> << >>]
TermFactory_iri(self, flavor, iri, purge) ==
    iri_call(self, iri, get_holder(self, flavor, iri, purge))
\* TermFactory::copy: Term::from_with calls get_holder on the namespace and
\* then, when there is one, on the suffix
copy_second(self, other, r1, r2) ==
    [f |-> r2.f, ok |-> TRUE,
     gets |-> <<GetRec(other.ns, self, r1), GetRec(other.suffix[1], r1.f, r2)>>,
     owned |-> <<Owned(other.ns, r1), Owned(other.suffix[1], r2)>>]
copy_first(self, flavor, other, purge, r1) ==
    IF is_some(other.suffix)
    THEN copy_second(self, other, r1, get_holder(r1.f, flavor, other.suffix[1], purge))
    ELSE get_holder_call(self, other.ns, r1)
TermFactory_copy(self, flavor, other, purge) ==
    copy_first(self, flavor, other, purge, get_holder(self, flavor, other.ns, purge))
\* Term::new_literal_lang(txt, lang): Ok when the tag has the shape of a
\* language tag, letters and then groups of "-" and letters or digits
LANG_TAG ==
    Cat(<<Plus(Cls(ALPHA)), Star(Cat(<<Lit("-"), Plus(Cls(ALPHA \cup DIGIT))>>))>>)
Term_new_literal_lang(lang) == is_match(LANG_TAG, lang)
\* TermFactory::literal_lang: get_holder for the text, then for the tag;
\* on Err both holders are dropped
literal_lang_call(self, txt, lang, r1, r2) ==
    IF Term_new_literal_lang(lang)
    THEN [f |-> r2.f, ok |-> TRUE,
          gets |-> <<GetRec(txt, self, r1), GetRec(lang, r1.f, r2)>>,
          owned |-> <<Owned(txt, r1), Owned(lang, r2)>>]
    ELSE [f |-> holder_drop(holder_drop(r2.f, r2.holder), r1.holder), ok |-> FALSE,
          gets |-> <<GetRec(txt, self, r1), GetRec(lang, r1.f, r2)>>,
          owned |-> << >>]
literal_lang_first(self, flavor, txt, lang, purge, r1) ==
    literal_lang_call(self, txt, lang, r1, get_holder(r1.f, flavor, lang, purge))
TermFactory_literal_lang(self, flavor, txt, lang, purge) ==
    literal_lang_first(self, flavor, txt, lang, purge,
                       get_holder(self, flavor, txt, purge))
\* A faulty shrink_to_fit: the expired entries stay.
RcTermFactory_shrink_to_fit_noop(self) == self
RcTermFactory_shrink_to_fit(self) == WeakHashSet_shrink_to_fit(self)
ArcTermFactory_shrink_to_fit(self) == WeakHashSet_shrink_to_fit(self)

(***************************************************************************)
(* The factories: an RcTermFactory and an ArcTermFactory, created empty    *)
(* and driven side by side with the same calls; the caller owns the        *)
(* holders the calls return, drops them one at a time, and in the end      *)
(* drops the factories.                                                    *)
(***************************************************************************)
MaxAllocs == 2
MaxHeld == MaxAllocs + 1
FactoryTexts == {<<"a", ":">>, <<"%">>}
\* the tags handed to literal_lang: one with the shape of a tag, one without
LangTexts == {<<"a">>, <<"%">>}
CopyTerms ==
    {Term("Iri", <<"a", ":">>, None, "&str"),
     Term("Iri", <<"a", ":">>, Some(<<"%">>), "&str"),
     Term("Iri", <<"%">>, Some(<<"%">>), "Box<str>")}

FacInit ==
    /\ FacIdle
    /\ view = NoView
    /\ rds = NoRds
    /\ rendered = << >>
    /\ IriIdle
    /\ JoinIdle
    /\ ContIdle

\* both factories have returned from the call op
FactoryReturns(op, r, a) ==
    /\ Len(r.f.heap) <= MaxAllocs
    /\ Len(a.f.heap) <= MaxAllocs
    /\ Len(held) + Len(r.owned) <= MaxHeld
    /\ rcf' = r.f
    /\ arcf' = a.f
    /\ held' = held \o [k \in 1..Len(r.owned) |->
                        [text |-> r.owned[k].text, rc |-> r.owned[k].holder,
                         arc |-> a.owned[k].holder]]
    /\ fcall' = [op |-> op, ok |-> r.ok,
                 rc |-> [before |-> rcf, gets |-> r.gets],
                 arc |-> [before |-> arcf, gets |-> a.gets]]
    /\ UNCHANGED <<rendered, iriVars, joinVars, contVars, view, rds>>
\* both factories have done op, which calls no get_holder
FactoryDone(op, r, a) ==
    /\ rcf' = r
    /\ arcf' = a
    /\ fcall' = [op |-> op, ok |-> TRUE,
                 rc |-> [before |-> rcf, gets |-> << >>],
                 arc |-> [before |-> arcf, gets |-> << >>]]
    /\ UNCHANGED <<rendered, iriVars, joinVars, contVars, view, rds>>

GetHolder ==
    /\ rcf.alive
    /\ \E txt \in FactoryTexts, pr \in SUBSET expired(rcf), pa \in SUBSET expired(arcf) :
        FactoryReturns("get_holder",
            get_holder_call(rcf, txt, RcTermFactory_get_holder(rcf, txt, pr)),
            get_holder_call(arcf, txt, ArcTermFactory_get_holder(arcf, txt, pa)))
Iri ==
    /\ rcf.alive
    /\ \E txt \in FactoryTexts, pr \in SUBSET expired(rcf), pa \in SUBSET expired(arcf) :
        FactoryReturns("iri", TermFactory_iri(rcf, "Rc", txt, pr),
                              TermFactory_iri(arcf, "Arc", txt, pa))
LiteralLang ==
    /\ rcf.alive
    /\ \E txt \in FactoryTexts, lang \in LangTexts,
          pr \in SUBSET expired(rcf), pa \in SUBSET expired(arcf) :
        FactoryReturns("literal_lang",
                       TermFactory_literal_lang(rcf, "Rc", txt, lang, pr),
                       TermFactory_literal_lang(arcf, "Arc", txt, lang, pa))
Copy ==
    /\ rcf.alive
    /\ \E other \in CopyTerms, pr \in SUBSET expired(rcf), pa \in SUBSET expired(arcf) :
        FactoryReturns("copy", TermFactory_copy(rcf, "Rc", other, pr),
                               TermFactory_copy(arcf, "Arc", other, pa))
ShrinkToFit ==
    /\ rcf.alive
    /\ FactoryDone("shrink_to_fit", RcTermFactory_shrink_to_fit(rcf),
                   ArcTermFactory_shrink_to_fit(arcf))
    /\ UNCHANGED held
\* the caller drops the holder (or the term holding it) it owns at place k
DropHolder ==
    \E k \in 1..Len(held) :
        /\ FactoryDone("drop_holder", holder_drop(rcf, held[k].rc),
                       holder_drop(arcf, held[k].arc))
        /\ held' = SubSeq(held, 1, k - 1) \o SubSeq(held, k + 1, Len(held))
DropFactory ==
    /\ rcf.alive
    /\ FactoryDone("drop_factory", WeakHashSet_drop(rcf), WeakHashSet_drop(arcf))
    /\ UNCHANGED held

FacNext ==
    \/ GetHolder \/ Iri \/ LiteralLang \/ Copy
    \/ ShrinkToFit \/ DropHolder \/ DropFactory
SpecFactory == FacInit /\ [][FacNext]_vars

\* What the claims on factories speak of.
Factories == {"Rc", "Arc"}
FactoryOf(fl) == IF fl = "Rc" THEN rcf ELSE arcf
CallOf(fl) == IF fl = "Rc" THEN fcall.rc ELSE fcall.arc
HolderOf(h, fl) == IF fl = "Rc" THEN h.rc ELSE h.arc
\* the entries of f that are not expired, those of them for txt, the texts
\* of a set of entries
LiveEntries(f) == f.table \ expired(f)
LiveFor(f, txt) == {i \in LiveEntries(f) : f.heap[i].text = txt}
TextsOf(f, E) == {f.heap[i].text : i \in E}
HeldTexts == {held[k].text : k \in 1..Len(held)}

\* C12: on each factory, at most one entry that is not expired per string;
\* two holders the caller owns for equal strings are the same allocation;
\* a get_holder for a string with a live holder returns that holder and
\* allocates nothing.
C12_Interning ==
    \A fl \in Factories :
        /\ \A i \in LiveEntries(FactoryOf(fl)), j \in LiveEntries(FactoryOf(fl)) :
                FactoryOf(fl).heap[i].text = FactoryOf(fl).heap[j].text => i = j
        /\ \A k \in 1..Len(held), l \in 1..Len(held) :
                held[k].text = held[l].text => HolderOf(held[k], fl) = HolderOf(held[l], fl)
        /\ \A n \in 1..Len(CallOf(fl).gets) :
                LiveFor(CallOf(fl).gets[n].before, CallOf(fl).gets[n].txt) # {} =>
                    /\ CallOf(fl).gets[n].hit
                    /\ CallOf(fl).gets[n].holder
                         \in LiveFor(CallOf(fl).gets[n].before, CallOf(fl).gets[n].txt)
                    /\ Len(CallOf(fl).gets[n].after.heap)
                         = Len(CallOf(fl).gets[n].before.heap)
\* a copy has asked twice for the same text, another text being live: the
\* first call allocated, the second returned the same holder
C12_Witness ==
    /\ fcall.op = "copy" /\ Len(fcall.rc.gets) = 2
    /\ ~fcall.rc.gets[1].hit /\ fcall.rc.gets[2].hit
    /\ fcall.rc.gets[1].holder = fcall.rc.gets[2].holder
    /\ Cardinality(LiveEntries(rcf)) = 2
    /\ Len(held) = 3 /\ held[2].arc = held[3].arc

\* C13: the factories hold no strong reference: the strong count of every
\* string is the number of holders the caller owns; a get_holder for a
\* text with no entry that is not expired (expired ones or none) allocates
\* a new holder for the text and records it.
C13_WeakOnly ==
    \A fl \in Factories :
        /\ \A i \in 1..Len(FactoryOf(fl).heap) :
                FactoryOf(fl).heap[i].strong
                    = Cardinality({k \in 1..Len(held) : HolderOf(held[k], fl) = i})
        /\ \A n \in 1..Len(CallOf(fl).gets) :
                LiveFor(CallOf(fl).gets[n].before, CallOf(fl).gets[n].txt) = {} =>
                    /\ ~CallOf(fl).gets[n].hit
                    /\ CallOf(fl).gets[n].holder = Len(CallOf(fl).gets[n].before.heap) + 1
                    /\ CallOf(fl).gets[n].holder \in CallOf(fl).gets[n].after.table
                    /\ CallOf(fl).gets[n].after.heap[CallOf(fl).gets[n].holder]
                         = Alloc(fl, CallOf(fl).gets[n].txt)
\* get_holder has been called for a text whose entry was expired and still
\* in the table
C13_Witness ==
    /\ fcall.op = "get_holder"
    /\ \E i \in expired(fcall.rc.before) :
            fcall.rc.before.heap[i].text = fcall.rc.gets[1].txt
    /\ ~fcall.rc.gets[1].hit
    /\ Cardinality({i \in rcf.table : rcf.heap[i].text = fcall.rc.gets[1].txt}) = 2

\* C14: after shrink_to_fit the entries of a factory are those that were
\* not expired, one for each string the caller holds, each still returned
\* by get; with no holder left the factory has no entry.
C14_ShrinkToFit ==
    fcall.op = "shrink_to_fit" =>
        \A fl \in Factories :
            /\ FactoryOf(fl).table = LiveEntries(CallOf(fl).before)
            /\ TextsOf(FactoryOf(fl), FactoryOf(fl).table) = HeldTexts
            /\ Cardinality(FactoryOf(fl).table) = Cardinality(HeldTexts)
            /\ \A k \in 1..Len(held) :
                    WeakHashSet_get(FactoryOf(fl), held[k].text)
                        = Some(HolderOf(held[k], fl))
\* iri has been called twice for one text, both terms dropped, and
\* shrink_to_fit has emptied the table
C14_Witness ==
    /\ fcall.op = "shrink_to_fit" /\ held = << >>
    /\ fcall.rc.before.table # {} /\ rcf.table = {} /\ arcf.table = {}
    /\ Len(rcf.heap) = 1

C18_HoldersOutliveFactory ==
    \A fl \in Factories :
        /\ ~FactoryOf(fl).alive =>
                \A k \in 1..Len(held) :
                    /\ FactoryOf(fl).heap[HolderOf(held[k], fl)].strong > 0
                    /\ FactoryOf(fl).heap[HolderOf(held[k], fl)].text = held[k].text
        /\ fcall.op = "drop_factory" => FactoryOf(fl).heap = CallOf(fl).before.heap
\* the factories are gone, one holder has been dropped since, two remain
C18_Witness ==
    /\ ~rcf.alive /\ ~arcf.alive /\ fcall.op = "drop_holder"
    /\ Len(held) = 2 /\ held[1].text # held[2].text

\* C17: every insert and every remove on the four containers returns
\* Ok(true) or Ok(false), whatever the state and the arguments, and
\* iteration yields no error element.
C17_NoError ==
    /\ last.op # "none" => last.ok /\ last.ret \in BOOLEAN
    /\ \A i \in 1..Len(vec) :
            Vec_triples(vec)[i].ok /\ Vec_triples(vec)[i].val = vec[i]
    /\ \A y \in HashSet_triples(set) : y.ok /\ y.val \in set
    /\ Len(Vec_triples(vec)) = Len(vec)
\* remove has been called for an element the non-empty Vec does not hold,
\* after an insert
C17_Witness ==
    /\ IsVec /\ last.op = "remove" /\ last.ok /\ ~last.ret
    /\ prev.op = "insert" /\ Len(vec) = 2

(***************************************************************************)
(* The read side of the containers: triples() / quads() of a slice, a Vec  *)
(* and a HashSet, and the views that filter them on one position.          *)
(***************************************************************************)
\* A faulty iteration: the first element is skipped.
Slice_triples_skip(self) == [i \in 1..(Len(self) - 1) |-> Ok(self[i + 1])]
\* Graph for [T]::triples and Dataset for [Q]::quads: <[T]>::iter, in index
\* order
Slice_triples(self) == [i \in 1..Len(self) |-> Ok(self[i])]
\* HashSet::iter: every element once, in the order of the buckets of this
\* instance, which the caller cannot choose (layout lists the set)
HashSet_iter(self, layout) == [i \in 1..Len(layout) |-> Ok(layout[i])]
\* the triple of a stored element: the element, or the first part of a quad
Elem_triple(e) == IF Len(e) = 2 THEN e[1] ELSE e
\* the default filters: the items of the source that are errors or whose
\* term at position k (whose graph key) equals the argument
filter_position(source, k, t) ==
    SelectSeq(source, LAMBDA r : ~r.ok \/ TermEq(Elem_triple(r.val)[k], t))
triples_with_s(source, s) == filter_position(source, 1, s)
triples_with_p(source, p_) == filter_position(source, 2, p_)
triples_with_o(source, o) == filter_position(source, 3, o)
quads_with_s(source, s) == filter_position(source, 1, s)
quads_with_p(source, p_) == filter_position(source, 2, p_)
quads_with_o(source, o) == filter_position(source, 3, o)
quads_with_g(source, g) ==
    SelectSeq(source, LAMBDA r : ~r.ok \/ GraphKeyEq(r.val[2], g))

MaxViewLen == 3
rdf_type == Term("Iri", <<"rdf:">>, Some(<<"type">>), "&'static str")
rdf_Property == Term("Iri", <<"rdf:">>, Some(<<"Property">>), "&'static str")
rdfs_Class == Term("Iri", <<"rdfs:">>, Some(<<"Class">>), "&'static str")
gn == GraphKey_Named(Term("BNode", <<"x">>, None, "&str"))
\* the arrays of the two test_slice tests
GraphFixture ==
    << <<rdf_type, rdf_type, rdf_Property>>,
       <<rdf_Property, rdf_type, rdfs_Class>>,
       <<rdfs_Class, rdf_type, rdfs_Class>> >>
DatasetFixture ==
    << <<GraphFixture[1], GraphKey_Default>>,
       <<GraphFixture[2], GraphKey_Default>>,
       <<GraphFixture[3], gn>> >>
ViewTriples == SeqRange(GraphFixture)
ViewQuads == SeqRange(DatasetFixture) \cup {<<GraphFixture[3], GraphKey_Default>>}
\* the arguments of the filters: the terms of the fixtures, rdfs:Class
\* again as one text in another holder, and a term no element has
ViewTerms ==
    {rdf_type, rdf_Property, rdfs_Class,
     Term("Iri", <<"rdfs:", "Class">>, None, "Rc<str>"),
     Term("BNode", <<"rdfs:", "Class">>, None, "&str")}
ViewGraphKeys == {GraphKey_Default, gn, GraphKey_Named(rdfs_Class)}
GraphKinds == {"SliceGraph", "VecGraph", "HashSetGraph"}
DatasetKinds == {"SliceDataset", "VecDataset", "HashSetDataset"}
\* what a Vec or a HashSet of BoxTerms stores for an element of the caller
Boxed(e) ==
    IF Len(e) = 2
    THEN << <<BoxTerm_from(e[1][1]), BoxTerm_from(e[1][2]), BoxTerm_from(e[1][3])>>,
            GraphKey_from(e[2]) >>
    ELSE <<BoxTerm_from(e[1]), BoxTerm_from(e[2]), BoxTerm_from(e[3])>>
Contents(k, elems) ==
    IF k \in {"SliceGraph", "SliceDataset"} THEN elems
    ELSE [i \in 1..Len(elems) |-> Boxed(elems[i])]

ViewInit ==
    /\ kind \in GraphKinds \cup DatasetKinds
    /\ \E elems \in TextsOver(IF kind \in GraphKinds THEN ViewTriples ELSE ViewQuads,
                              MaxViewLen) :
        /\ kind \in {"HashSetGraph", "HashSetDataset"} =>
                \A i \in 1..Len(elems), j \in 1..Len(elems) : elems[i] = elems[j] => i = j
        /\ vec = Contents(kind, elems)
        /\ set = IF kind \in {"HashSetGraph", "HashSetDataset"}
                 THEN SeqRange(Contents(kind, elems)) ELSE {}
    /\ last = NoCall
    /\ prev = NoCall
    /\ rendered = << >>
    /\ IriIdle
    /\ JoinIdle
    /\ view = NoView
    /\ rds = NoRds
    /\ FacIdle

\* triples() / quads() of the container at hand
Source ==
    IF kind \in {"SliceGraph", "SliceDataset"} THEN Slice_triples(vec)
    ELSE IF kind \in {"VecGraph", "VecDataset"} THEN Vec_triples(vec)
    ELSE HashSet_iter(set, vec)
ViewReturns(op, arg, items) ==
    /\ view' = [op |-> op, arg |-> arg, items |-> items]
    /\ UNCHANGED <<rendered, iriVars, joinVars, contVars, facVars, rds>>

Triples ==
    /\ kind \in GraphKinds
    /\ ViewReturns("triples", << >>, Source)
TriplesWithS ==
    /\ kind \in GraphKinds
    /\ \E s \in ViewTerms : ViewReturns("triples_with_s", <<s>>, triples_with_s(Source, s))
TriplesWithP ==
    /\ kind \in GraphKinds
    /\ \E p_ \in ViewTerms : ViewReturns("triples_with_p", <<p_>>, triples_with_p(Source, p_))
TriplesWithO ==
    /\ kind \in GraphKinds
    /\ \E o \in ViewTerms : ViewReturns("triples_with_o", <<o>>, triples_with_o(Source, o))
Quads ==
    /\ kind \in DatasetKinds
    /\ ViewReturns("quads", << >>, Source)
QuadsWithS ==
    /\ kind \in DatasetKinds
    /\ \E s \in ViewTerms : ViewReturns("quads_with_s", <<s>>, quads_with_s(Source, s))
QuadsWithP ==
    /\ kind \in DatasetKinds
    /\ \E p_ \in ViewTerms : ViewReturns("quads_with_p", <<p_>>, quads_with_p(Source, p_))
QuadsWithO ==
    /\ kind \in DatasetKinds
    /\ \E o \in ViewTerms : ViewReturns("quads_with_o", <<o>>, quads_with_o(Source, o))
QuadsWithG ==
    /\ kind \in DatasetKinds
    /\ \E g \in ViewGraphKeys : ViewReturns("quads_with_g", <<g>>, quads_with_g(Source, g))

ViewNext ==
    \/ Triples \/ TriplesWithS \/ TriplesWithP \/ TriplesWithO
    \/ Quads \/ QuadsWithS \/ QuadsWithP \/ QuadsWithO \/ QuadsWithG
SpecViews == ViewInit /\ [][ViewNext]_vars

\* the stored element e passes the filter op(arg)
Selected(e, op, arg) ==
    CASE op \in {"triples", "quads"} -> TRUE
      [] op \in {"triples_with_s", "quads_with_s"} -> TermEq(Elem_triple(e)[1], arg[1])
      [] op \in {"triples_with_p", "quads_with_p"} -> TermEq(Elem_triple(e)[2], arg[1])
      [] op \in {"triples_with_o", "quads_with_o"} -> TermEq(Elem_triple(e)[3], arg[1])
      [] op = "quads_with_g" -> GraphKeyEq(e[2], arg[1])
\* the stored elements that pass, as often as they are stored and in the
\* order of the container
SelectedOf(v, op, arg) == SelectSeq(v, LAMBDA e : Selected(e, op, arg))

\* C15: a view of a slice, a Vec or a HashSet yields, without an error
\* item, exactly the stored elements whose term at the filtered position
\* (whose graph key) equals the argument, as often as they are stored and
\* in the order of the container; on the fixtures triples()/quads() yields
\* 3, the object filter for rdfs:Class 2 and quads_with_g(_:x) 1.
C15_FilteredViews ==
    view.op # "none" =>
        /\ \A i \in 1..Len(view.items) : view.items[i].ok
        /\ [i \in 1..Len(view.items) |-> view.items[i].val]
             = SelectedOf(vec, view.op, view.arg)
        /\ vec \in {GraphFixture, DatasetFixture} =>
            /\ view.op \in {"triples", "quads"} => Len(view.items) = 3
            /\ (view.op \in {"triples_with_o", "quads_with_o"} /\ view.arg = <<rdfs_Class>>)
                    => Len(view.items) = 2
            /\ (view.op = "quads_with_g" /\ view.arg = <<gn>>) => Len(view.items) = 1
\* quads_with_g(_:x) on the slice of test_slice has yielded its one quad
C15_Witness ==
    /\ kind = "SliceDataset" /\ vec = DatasetFixture
    /\ view.op = "quads_with_g" /\ view.arg = <<gn>>
    /\ Len(view.items) = 1 /\ view.items[1].val = DatasetFixture[3]

\* What the claims on the path of a parse result speak of: the path text
\* of an accepted text, which is the text without its fragment, its query,
\* its scheme and its authority.
CutAt(s, c) == IF IndexOf(s, c) = 0 THEN s ELSE SubSeq(s, 1, IndexOf(s, c) - 1)
HierText(t) == CutAt(CutAt(t, "#"), "?")
AfterScheme(h) ==
    IF IndexOf(h, ":") > 0 /\ (IndexOf(h, "/") = 0 \/ IndexOf(h, ":") < IndexOf(h, "/"))
    THEN SubSeq(h, IndexOf(h, ":") + 1, Len(h))
    ELSE h
AfterSlashes(a) == IF IndexOf(a, "/") = 0 THEN << >> ELSE SubSeq(a, IndexOf(a, "/"), Len(a))
AfterAuthority(r) ==
    IF StartsWith(r, <<"/", "/">>) THEN AfterSlashes(SubSeq(r, 3, Len(r))) ELSE r
PathText(t) == AfterAuthority(AfterScheme(HierText(t)))
Parsed == ipc \in {"parsed", "rendered"}
\* the places of the path text where a "/" follows a "/"
DoubleSlashes(pt) == {i \in 1..(Len(pt) - 1) : pt[i] = "/" /\ pt[i + 1] = "/"}
\* the segments that are empty and neither the first nor the last
InteriorEmpty(path) == {k \in 2..(Len(path) - 1) : path[k] = << >>}

\* C19: for every accepted text the segments are none exactly when the
\* path text is empty, the first is "" exactly when the path text begins
\* with "/", the last is "" exactly when it ends with "/", no segment
\* holds a "/"; "http://example.org", "http://example.org/" and
\* "http://example.org/foo/bar/" give [], ["", ""], ["", "foo", "bar", ""].
C19_PathSegmentConvention ==
    Parsed =>
        /\ (pi.path = << >>) <=> (PathText(text) = << >>)
        /\ (pi.path # << >> /\ pi.path[1] = << >>)
                <=> (PathText(text) # << >> /\ PathText(text)[1] = "/")
        /\ (pi.path # << >> /\ pi.path[Len(pi.path)] = << >>)
                <=> (PathText(text) # << >> /\ PathText(text)[Len(PathText(text))] = "/")
        /\ \A k \in 1..Len(pi.path) : "/" \notin SeqRange(pi.path[k])
        /\ text = POSITIVE_IRIS[2][1] => pi.path = << >>
        /\ text = POSITIVE_IRIS[6][1] => pi.path = << << >>, << >> >>
        /\ text = POSITIVE_IRIS[10][1] =>
                pi.path = << << >>, <<"f", "o", "o">>, <<"b", "a", "r">>, << >> >>
\* "http://example.org/foo/bar/" has been parsed
C19_Witness ==
    /\ Parsed /\ text = POSITIVE_IRIS[10][1]
    /\ PathText(text) = <<"/", "f", "o", "o", "/", "b", "a", "r", "/">>
    /\ Len(pi.path) = 4

\* C20 as stated: in a parse result no segment but the first and the last
\* is "".
C20_NoInteriorEmpty == Parsed => InteriorEmpty(pi.path) = {}
\* C20 amended: in a parse result the segments that are "" and neither
\* first nor last are as many as the places of the path text where a "/"
\* follows a "/"; there is none exactly when the path text has no "//".
C20_InteriorEmptyAtDoubleSlash ==
    Parsed =>
        Cardinality(InteriorEmpty(pi.path)) = Cardinality(DoubleSlashes(PathText(text)))
\* "http://example.org/foo/.././/bar" has been parsed: its fifth segment
\* of six is ""
C20_Witness ==
    /\ Parsed /\ text = POSITIVE_IRIS[12][1]
    /\ Len(pi.path) = 6 /\ InteriorEmpty(pi.path) = {5}

(***************************************************************************)
(* remove_dot_segments turn by turn: the call with a path, the early       *)
(* return or the push and i = 0, one turn of the while loop at a time, and *)
(* the return when i < path.len() fails.                                   *)
(***************************************************************************)
MaxRdsLen == 4
RdsSegments == {<< >>, DOT, DOTDOT, <<"g">>}
\* the paths join hands over when "../../../g" and "../../../../g" are
\* resolved against "http://a/b/c/d;p?q"
RdsBase ==
    ParsedIri(Some(<<"h", "t", "t", "p">>), Some(<<"a">>),
              << << >>, <<"b">>, <<"c">>, <<"d", ";", "p">> >>, Some(<<"q">>), None)
RdsFixtures ==
    {merge(RdsBase, <<DOTDOT, DOTDOT, DOTDOT, <<"g">>>>),
     merge(RdsBase, <<DOTDOT, DOTDOT, DOTDOT, DOTDOT, <<"g">>>>)}
RdsInit ==
    /\ rds \in {[pc |-> "called", input |-> p, path |-> p, i |-> 0,
                 before |-> [path |-> p, i |-> 0]] :
                    p \in TextsOver(RdsSegments, MaxRdsLen) \cup RdsFixtures}
    /\ rendered = << >>
    /\ IriIdle
    /\ JoinIdle
    /\ ContIdle
    /\ view = NoView /\ FacIdle

\* if path.len() == 0 { return; }
RdsReturnEmpty ==
    /\ rds.pc = "called"
    /\ Len(rds.path) = 0
    /\ rds' = [rds EXCEPT !.pc = "returned"]
    /\ UNCHANGED <<rendered, iriVars, joinVars, contVars, view, facVars>>
\* let mut i = 0; ...; path.push("")
RdsEnter ==
    /\ rds.pc = "called"
    /\ Len(rds.path) # 0
    /\ rds' = [rds EXCEPT !.pc = "loop", !.path = rds_push(rds.path), !.i = 0,
                          !.before = [path |-> rds_push(rds.path), i |-> 0]]
    /\ UNCHANGED <<rendered, iriVars, joinVars, contVars, view, facVars>>
\* while i < path.len() { ... }: one turn
RdsTurn ==
    /\ rds.pc = "loop"
    /\ rds.i < Len(rds.path)
    /\ rds' = [rds EXCEPT !.path = rds_iteration(rds.path, rds.i).path,
                          !.i = rds_iteration(rds.path, rds.i).i,
                          !.before = [path |-> rds.path, i |-> rds.i]]
    /\ UNCHANGED <<rendered, iriVars, joinVars, contVars, view, facVars>>
\* i < path.len() fails: the function returns
RdsReturn ==
    /\ rds.pc = "loop"
    /\ ~(rds.i < Len(rds.path))
    /\ rds' = [rds EXCEPT !.pc = "returned"]
    /\ UNCHANGED <<rendered, iriVars, joinVars, contVars, view, facVars>>

RdsNext == RdsReturnEmpty \/ RdsEnter \/ RdsTurn \/ RdsReturn
SpecRds == RdsInit /\ [][RdsNext]_vars
\* a call that has started runs on: nothing but the call itself can stop it
SpecRdsRuns == SpecRds /\ WF_vars(RdsNext)

\* What the claims on remove_dot_segments speak of.
\* a turn of the loop has been taken since the call
TurnTaken ==
    /\ rds.pc \in {"loop", "returned"}
    /\ <<rds.path, rds.i>> # <<rds.before.path, rds.before.i>>
\* the segment the last turn looked at
TurnSegment == rds.before.path[rds.before.i + 1]
\* p without its segments at the 0-based indices a..b
WithoutRange(p, a, b) == SubSeq(p, 1, a) \o SubSeq(p, b + 2, Len(p))
Rooted(p) == p # << >> /\ p[1] = << >>

\* C21: a path whose first segment is "" keeps it through every turn and
\* at the return; a ".." at index 1 directly after the leading "" deletes
\* only itself, any other ".." with a segment before it deletes itself
\* and that one segment.
C21_RootIsKept ==
    /\ Rooted(rds.input) => Rooted(rds.path)
    /\ (TurnTaken /\ TurnSegment = DOTDOT /\ rds.before.i >= 1) =>
            IF rds.before.i = 1 /\ rds.before.path[1] = << >>
            THEN /\ rds.path = WithoutRange(rds.before.path, 1, 1)
                 /\ rds.i = 1
            ELSE /\ rds.path = WithoutRange(rds.before.path, rds.before.i - 1, rds.before.i)
                 /\ rds.i = rds.before.i - 1
\* the path of "../../../../g" merged with that of "http://a/b/c/d;p?q" has
\* come back as ["", "g"]
C21_Witness ==
    /\ rds.pc = "returned"
    /\ rds.input = << << >>, <<"b">>, <<"c">>, DOTDOT, DOTDOT, DOTDOT, DOTDOT, <<"g">> >>
    /\ rds.path = << << >>, <<"g">> >>

\* C25: for a path that is not empty and ends with "." or "..", the result
\* ends with "", is the result for the same path followed by "", and its
\* rendering is empty or ends with "/".
C25_TerminatingSlash ==
    (/\ rds.pc = "returned" /\ rds.input # << >>
     /\ rds.input[Len(rds.input)] \in {DOT, DOTDOT}) =>
        /\ rds.path # << >>
        /\ rds.path[Len(rds.path)] = << >>
        /\ rds.path = remove_dot_segments(Append(rds.input, << >>))
        /\ \/ slice_join(rds.path, <<"/">>) = << >>
           \/ slice_join(rds.path, <<"/">>)[Len(slice_join(rds.path, <<"/">>))] = "/"
\* ["", "g", ".."] has come back as ["", ""], which renders as "/"
C25_Witness ==
    /\ rds.pc = "returned"
    /\ rds.input = << << >>, <<"g">>, DOTDOT >>
    /\ rds.path = << << >>, << >> >>

\* C26: every call of remove_dot_segments returns; each turn of its loop
\* removes at least one segment or leaves the path and advances i by one,
\* i is never below 0 nor above the length, and at the return i is the
\* length of the path, which is the result of the function.
C26_Terminates ==
    /\ [](/\ rds.i >= 0 /\ rds.i <= Len(rds.path)
          /\ TurnTaken =>
                \/ Len(rds.path) < Len(rds.before.path) /\ rds.i <= rds.before.i
                \/ rds.path = rds.before.path /\ rds.i = rds.before.i + 1
          /\ rds.pc = "returned" =>
                /\ rds.i = Len(rds.path) \/ rds.input = << >>
                /\ rds.path = remove_dot_segments(rds.input))
    /\ <>(rds.pc = "returned")
\* a call with four segments has returned after turns that removed three
C26_Witness ==
    /\ rds.pc = "returned"
    /\ Len(rds.input) = 4 /\ Len(rds.path) = 1 /\ rds.i = 1
    /\ rds.input[1] = <<"g">>

\* the 1-based index of the first element of v that equals the arguments x
FirstMatch(v, x) ==
    CHOOSE i \in 1..Len(v) : Matches(v[i], x) /\ \A j \in 1..(i - 1) : ~Matches(v[j], x)

\* C22: when remove(x) succeeds on a Vec of length n whose first element
\* equal to x is at index i, the length is n-1 afterwards, the element
\* that was last is at index i (when i was not the last index), every
\* other element left keeps its index, and the later elements equal to x
\* are still there.
C22_FirstMatchSwapRemove ==
    (IsVec /\ last.op = "remove" /\ last.ret) =>
        /\ Count(last.vec, last.x) > 0
        /\ Len(vec) = Len(last.vec) - 1
        /\ FirstMatch(last.vec, last.x) < Len(last.vec) =>
                vec[FirstMatch(last.vec, last.x)] = last.vec[Len(last.vec)]
        /\ \A k \in 1..Len(vec) :
                k # FirstMatch(last.vec, last.x) => vec[k] = last.vec[k]
        /\ \A k \in (FirstMatch(last.vec, last.x) + 1)..Len(vec) :
                Matches(last.vec[k], last.x) => Matches(vec[k], last.x)
        /\ Count(vec, last.x) = Count(last.vec, last.x) - 1
\* of [x, x, y] the first x has gone: y has taken its place, the second x
\* has kept its own
C22_Witness ==
    /\ IsVec /\ last.op = "remove" /\ last.ret /\ Len(last.vec) = 3
    /\ Matches(last.vec[1], last.x) /\ Matches(last.vec[2], last.x)
    /\ ~Matches(last.vec[3], last.x)
    /\ vec = <<last.vec[3], last.vec[2]>>

\* the arguments x and y of two calls on a dataset name the same triple
SameTriple(x, y) == \A k \in 1..3 : TermEq(x[k], y[k])
\* the stored quad e holds the triple of the arguments x
TripleOf(e, x) == \A k \in 1..3 : TermEq(x[k], e[1][k])

\* C27: in a HashSet of quads two quads with equal s, p, o and different
\* graph keys are two elements: the insert of the second returns true
\* when no quad equal to it was there, and a remove leaves every quad
\* under another graph key; in a Vec of quads remove(s, p, o, g) takes
\* away only a quad whose graph key equals g, and returns false and
\* changes nothing when the triple is there under other graph keys only.
C27_GraphKeyIsFourthCoordinate ==
    /\ (kind = "HashSetDataset" /\ last.op = "insert") =>
            /\ (~\E e \in last.set : Matches(e, last.x)) => last.ret
            /\ (/\ prev.op = "insert" /\ prev.ret /\ SameTriple(prev.x, last.x)
                /\ ~GraphKeyEq(prev.x[4], last.x[4])
                /\ ~\E e \in prev.set : Matches(e, last.x)) =>
                    /\ last.ret
                    /\ Cardinality({e \in set : TripleOf(e, last.x)})
                         = Cardinality({e \in prev.set : TripleOf(e, last.x)}) + 2
    /\ (kind = "HashSetDataset" /\ last.op = "remove") =>
            /\ \A e \in last.set : ~GraphKeyEq(last.x[4], e[2]) => e \in set
            /\ \A e \in last.set \ set : Matches(e, last.x)
    /\ (kind = "VecDataset" /\ last.op = "remove") =>
            /\ \A e \in SeqRange(last.vec) :
                    ~GraphKeyEq(last.x[4], e[2]) =>
                        Occurrences(vec, e) = Occurrences(last.vec, e)
            /\ (~\E i \in 1..Len(last.vec) : Matches(last.vec[i], last.x)) =>
                    ~last.ret /\ vec = last.vec
\* remove has been called on a Vec that holds the triple under the other
\* graph key only: false, nothing changed
C27_Witness ==
    /\ kind = "VecDataset" /\ last.op = "remove" /\ ~last.ret
    /\ Len(vec) = 2 /\ vec = last.vec
    /\ \A i \in 1..2 : TripleOf(vec[i], last.x) /\ ~GraphKeyEq(last.x[4], vec[i][2])

\* What the claims on the result of join speak of.
Joined == jpc \in {"joined", "rendered"}
HasDots(path) == \E k \in 1..Len(path) : path[k] \in {DOT, DOTDOT}
Reparsed == ParsedIri_new(rendered)

\* C23: for every parsed base and reference, the text of join's result is
\* accepted by ParsedIri::new and parses to the scheme, authority,
\* segments, query and fragment of that result.
C23_JoinIsWellFormed ==
    jpc = "rendered" => (Reparsed.ok /\ Reparsed.pi = joined)

\* C24: when the reference has a scheme, an authority or a path that is
\* not empty, the path of join's result has no segment "." or "..",
\* whatever the paths of base and reference hold; otherwise the path of
\* the result is the path of the base as it is.
C24_NoDotSegments ==
    Joined =>
        IF is_some(ref.scheme) \/ is_some(ref.authority) \/ Len(ref.path) # 0
        THEN ~HasDots(joined.path)
        ELSE joined.path = base.path
\* the reference "../g" has been merged with the base path "../b": no dot
\* segment is left
C24_Witness ==
    /\ Joined /\ HasDots(base.path) /\ HasDots(ref.path)
    /\ is_none(ref.scheme) /\ is_none(ref.authority) /\ ref.path[1] # << >>
    /\ base.path = <<DOTDOT, <<"b">>>> /\ ref.path = <<DOTDOT, <<"g">>>>
    /\ joined.path = << <<"g">> >>

\* C28: when iri or literal_lang fails because the term constructor
\* rejects its input, the caller gets the error and no holder, the live
\* entries of each factory and their reference counts are those of before
\* the call, every holder the call allocated is dead, and the table after
\* the next shrink_to_fit holds the entries that were live before.
C28_FailedBuilderLeavesNoLiveState ==
    (fcall.op \in {"iri", "literal_lang"} /\ ~fcall.ok) =>
        \A fl \in Factories :
            /\ LiveEntries(FactoryOf(fl)) = LiveEntries(CallOf(fl).before)
            /\ \A i \in LiveEntries(FactoryOf(fl)) :
                    FactoryOf(fl).heap[i] = CallOf(fl).before.heap[i]
            /\ \A n \in 1..Len(CallOf(fl).gets) :
                    ~CallOf(fl).gets[n].hit =>
                        FactoryOf(fl).heap[CallOf(fl).gets[n].holder].strong = 0
            /\ WeakHashSet_shrink_to_fit(FactoryOf(fl)).table
                 = LiveEntries(CallOf(fl).before)
\* iri("%") has failed on factories that hold a live "a:": the holder
\* allocated for "%" is an expired entry
C28_Witness ==
    /\ fcall.op = "iri" /\ ~fcall.ok /\ ~fcall.rc.gets[1].hit
    /\ fcall.rc.gets[1].holder \in expired(rcf)
    /\ Cardinality(LiveEntries(rcf)) = 1 /\ Len(held) = 1

====
